---------------------------- MODULE Spec2Model ----------------------------
(***************************************************************************)
(* A model of mp3ify (src/mp3ify.py): the three synchronisation flows      *)
(* (to-spotify, from-spotify, from-youtube), the dispatcher in front of    *)
(* them, and the text functions they use.                                  *)
(*                                                                         *)
(* Text is a sequence of one-character strings.  Python's None is the      *)
(* value None below, which is no text.                                     *)
(***************************************************************************)
EXTENDS Integers, Sequences, FiniteSets, TLC

(***************************************************************************)
(* Bounds of the model.                                                    *)
(***************************************************************************)
\* longest playlist (Spotify or YouTube) a run is given
MaxTracks == 2
\* largest explicit --num-cores value (0 stands for "system default")
MaxCores == 1
\* runs of the program against the same output directory
MaxRuns == 2
\* local files of a directory examined one by one
MaxFiles == 3
\* longest list of matched tracks handed to the add loop
MaxFound == 250
\* firings of the post-processing hook for one download
MaxHooks == 2
\* most pieces of a title handed to the cleaning functions
MaxPieces == 4
\* longest artist or title of a track whose search query is built
MaxField == 2
\* longest file stem handed to the filename parser
MaxStem == 7

(***************************************************************************)
(* Program constants.                                                      *)
(***************************************************************************)
CHUNK_SIZE == 100
\* items the Spotify API returns per playlist_items page (its default)
PageSize == 1

(***************************************************************************)
(* Text.                                                                   *)
(***************************************************************************)
None == <<"None">>

\* Python truthiness of an Optional[str]
Truthy(x) == x # None /\ x # <<>>

UpperCase == <<"A","B","C","D","E","F","G","H","I","J","K","L","M",
               "N","O","P","Q","R","S","T","U","V","W","X","Y","Z">>
LowerCase == <<"a","b","c","d","e","f","g","h","i","j","k","l","m",
               "n","o","p","q","r","s","t","u","v","w","x","y","z">>

\* the case folding of re.IGNORECASE on the letters of the model
Lower(c) == IF \E i \in 1..26 : UpperCase[i] = c
            THEN LowerCase[CHOOSE i \in 1..26 : UpperCase[i] = c]
            ELSE c

\* the class \s of the regular expressions on str, which is also what str.isspace
\* accepts: the ASCII whitespace, the separators U+001C..U+001F, U+0085, U+00A0 and
\* U+1680 (the spaces from U+2000 on cannot be written in a text of the model)
IsSpace(c) == c \in {" ", "\t", "\n", "\r", "\f", "", "", "", "", "", "", " ", " "}

\* the first position at or after i that holds no whitespace (Len(s)+1 if none)
RECURSIVE SkipSpace(_, _)
SkipSpace(s, i) == IF i <= Len(s) /\ IsSpace(s[i]) THEN SkipSpace(s, i + 1) ELSE i

\* the position of the first newline at or after i (Len(s)+1 if none): "." stops there
RECURSIVE LineEnd(_, _)
LineEnd(s, i) == IF i <= Len(s) /\ s[i] # "\n" THEN LineEnd(s, i + 1) ELSE i

\* kw occurs in s at position i, letters compared without case
MatchesAt(s, i, kw) ==
    /\ i >= 1
    /\ i + Len(kw) - 1 <= Len(s)
    /\ \A k \in 1..Len(kw) : Lower(s[i + k - 1]) = Lower(kw[k])

Max(S) == CHOOSE x \in S : \A y \in S : y <= x
Min(S) == CHOOSE x \in S : \A y \in S : x <= y

KwOfficialVideo == <<"O","f","f","i","c","i","a","l"," ","V","i","d","e","o">>
KwMusicVideo == <<"M","u","s","i","c"," ","V","i","d","e","o">>
KwLyricVideo == <<"L","y","r","i","c"," ","V","i","d","e","o">>
KwAudio == <<"A","u","d","i","o">>

\* r'\s*\(.*KW.*?\)\s*' tried at position i: the position after the match, 0 if none.
\* ".*" is greedy (the last occurrence of KW on the line that a ")" follows),
\* ".*?" is lazy (the first ")" after it).
ParenMatchEnd(s, i, kw) ==
    LET j == SkipSpace(s, i)
    IN IF j > Len(s) \/ s[j] # "(" THEN 0
       ELSE LET L == LineEnd(s, j + 1)
                closes(m) == {n \in (m + Len(kw))..(L - 1) : s[n] = ")"}
                starts == {m \in (j + 1)..(L - Len(kw)) :
                              MatchesAt(s, m, kw) /\ closes(m) # {}}
            IN IF starts = {} THEN 0
               ELSE SkipSpace(s, Min(closes(Max(starts))) + 1)

\* r'\s*\[.*?\]\s*' tried at position i
BracketMatchEnd(s, i) ==
    LET j == SkipSpace(s, i)
    IN IF j > Len(s) \/ s[j] # "[" THEN 0
       ELSE LET L == LineEnd(s, j + 1)
                closes == {n \in (j + 1)..(L - 1) : s[n] = "]"}
            IN IF closes = {} THEN 0 ELSE SkipSpace(s, Min(closes) + 1)

\* r'\s*MARK.*$' tried at position i, MARK a literal text: "$" holds at the end of
\* the text and before a newline that ends it
SuffixMatchEnd(s, i, mark) ==
    LET j == SkipSpace(s, i)
    IN IF ~MatchesAt(s, j, mark) THEN 0
       ELSE LET L == LineEnd(s, j + Len(mark))
            IN IF L >= Len(s) THEN L ELSE 0

\* one pattern of the cleaning rules tried at position i
MatchEnd(rule, s, i) ==
    CASE rule = "official" -> ParenMatchEnd(s, i, KwOfficialVideo)
      [] rule = "music" -> ParenMatchEnd(s, i, KwMusicVideo)
      [] rule = "lyric" -> ParenMatchEnd(s, i, KwLyricVideo)
      [] rule = "audio" -> ParenMatchEnd(s, i, KwAudio)
      [] rule = "bracket" -> BracketMatchEnd(s, i)
      [] rule = "pipe" -> SuffixMatchEnd(s, i, <<"|">>)
      [] rule = "slashes" -> SuffixMatchEnd(s, i, <<"/", "/">>)

\* re.sub(pattern, '', s): every match, leftmost first, removed
RECURSIVE SubFrom(_, _, _)
SubFrom(rule, s, pos) ==
    IF pos > Len(s) THEN <<>>
    ELSE LET e == MatchEnd(rule, s, pos)
         IN IF e > pos THEN SubFrom(rule, s, e)
            ELSE <<s[pos]>> \o SubFrom(rule, s, pos + 1)

ReSub(rule, s) == SubFrom(rule, s, 1)

\* the characters of r'[<>:"/\\|?*\n\t]'
InvalidChars == {"<", ">", ":", "\"", "/", "\\", "|", "?", "*", "\n", "\t"}

RemoveInvalid(s) == SelectSeq(s, LAMBDA c : c \notin InvalidChars)

\* re.sub(r"\s+", " ", s)
RECURSIVE CollapseSpace(_)
CollapseSpace(s) ==
    IF s = <<>> THEN <<>>
    ELSE IF IsSpace(s[1])
         THEN <<" ">> \o CollapseSpace(SubSeq(s, SkipSpace(s, 1), Len(s)))
         ELSE <<s[1]>> \o CollapseSpace(Tail(s))

\* str.strip(chars)
RECURSIVE StripChars(_, _)
StripChars(s, chars) ==
    IF s = <<>> THEN <<>>
    ELSE IF s[1] \in chars THEN StripChars(Tail(s), chars)
    ELSE IF s[Len(s)] \in chars THEN StripChars(SubSeq(s, 1, Len(s) - 1), chars)
    ELSE s

\* str.strip(): whitespace removed at both ends
RECURSIVE Strip(_)
Strip(s) ==
    IF s = <<>> THEN <<>>
    ELSE IF IsSpace(s[1]) THEN Strip(Tail(s))
    ELSE IF IsSpace(s[Len(s)]) THEN Strip(SubSeq(s, 1, Len(s) - 1))
    ELSE s

\* the seven substitutions that sanitize_filename and _parse_youtube_title share
StripNoise(s) ==
    ReSub("slashes", ReSub("pipe", ReSub("bracket", ReSub("audio",
        ReSub("lyric", ReSub("music", ReSub("official", s)))))))

sanitize_filename(name) == Strip(CollapseSpace(RemoveInvalid(StripNoise(name))))

_parse_youtube_title(raw_title) ==
    StripChars(Strip(CollapseSpace(RemoveInvalid(StripNoise(raw_title)))), {"-", " "})

(***************************************************************************)
(* Inputs of the model: the remote Spotify playlist of from-spotify.       *)
(***************************************************************************)
\* items as the Spotify API returns them (track id, name, first artist, album);
\* "a" and "b" differ only by a character the sanitizer removes, "x" has no artist
ItemA == [id |-> <<"a">>, name |-> <<"T">>, artist |-> <<"A", "/", "B">>, album |-> <<"L">>]
ItemB == [id |-> <<"b">>, name |-> <<"T">>, artist |-> <<"A", "B">>, album |-> None]
ItemD == [id |-> <<"d">>, name |-> <<"U", " ", "[", "x", "]">>, artist |-> <<"D">>, album |-> <<"L">>]
ItemX == [id |-> <<"x">>, name |-> <<"V">>, artist |-> None, album |-> <<"L">>]
AllItems == <<ItemA, ItemB, ItemD, ItemX>>

\* the elements of the index set I in increasing order
RECURSIVE Ascending(_)
Ascending(I) == IF I = {} THEN <<>> ELSE <<Min(I)>> \o Ascending(I \ {Min(I)})

\* the selections of at most n elements of the sequence all, in its order
Selections(all, n) ==
    {[k \in 1..Cardinality(I) |-> all[Ascending(I)[k]]] :
        I \in {J \in SUBSET (1..Len(all)) : Cardinality(J) <= n}}

(***************************************************************************)
(* Inputs of the model: the YouTube playlist of from-youtube.              *)
(***************************************************************************)
\* entries as the downloader reports them in info_dict; "v" and "w" clean to the
\* same title and artist, "z" names neither uploader nor channel and is reported
\* without a playlist index
VideoV == [id |-> <<"v">>, title |-> <<"S", " ", "(", "A", "u", "d", "i", "o", ")">>,
           uploader |-> <<"U">>, channel |-> <<"C">>, album |-> <<"L">>, has_index |-> TRUE]
VideoW == [id |-> <<"w">>, title |-> <<"S", " ", "|", " ", "x">>,
           uploader |-> None, channel |-> <<"U">>, album |-> None, has_index |-> TRUE]
VideoZ == [id |-> <<"z">>, title |-> <<"-", "Z", ":">>,
           uploader |-> None, channel |-> None, album |-> None, has_index |-> FALSE]
AllVideos == <<VideoV, VideoW, VideoZ>>

\* the YouTube video a search finds for a track
YoutubeUrlOf(track) == <<"y", "t", "/">> \o track.spotify_id

(***************************************************************************)
(* TrackInfo and its properties.                                           *)
(***************************************************************************)
TrackInfo(artist, album, title, spotify_id) ==
    [filename |-> None, artist |-> artist, album |-> album, title |-> title, url |-> None,
     youtube_url |-> None, spotify_id |-> spotify_id]

is_valid_for_spotify_search(track) == Truthy(track.title)
is_valid_for_youtube_search(track) == Truthy(track.title) /\ Truthy(track.artist)
has_spotify_url(track) == Truthy(track.url)
has_youtube_url(track) == Truthy(track.youtube_url)

\* search_query_spotify that never uses the artist
search_query_title_only(track) == IF Truthy(track.title) THEN track.title ELSE <<>>

\* TrackInfo.search_query_spotify
search_query_spotify(track) ==
    IF ~Truthy(track.artist) \/ ~Truthy(track.title)
    THEN (IF Truthy(track.title) THEN track.title ELSE <<>>)
    ELSE <<"a", "r", "t", "i", "s", "t", ":">> \o track.artist
         \o <<" ", "t", "r", "a", "c", "k", ":">> \o track.title

Ext == <<".", "m", "p", "3">>

\* pathlib's suffix of a path: the name from its last dot on, when that dot is
\* neither the first nor the last character of the name; else empty
Suffix(path) ==
    LET slashes == {k \in 1..Len(path) : path[k] = "/"}
        start == IF slashes = {} THEN 1 ELSE Max(slashes) + 1
        dots == {k \in start..Len(path) : path[k] = "."}
    IN IF dots # {} /\ Max(dots) > start /\ Max(dots) < Len(path)
       THEN SubSeq(path, Max(dots), Len(path))
       ELSE <<>>

\* filename_base of download_track_from_youtube
FilenameBase(artist, title) == sanitize_filename(artist \o <<" ", "-", " ">> \o title)

\* mp3_path of download_track_from_youtube, within the output directory
Mp3Path(track) == FilenameBase(track.artist, track.title) \o Ext

(***************************************************************************)
(* State.                                                                  *)
(***************************************************************************)
VARIABLES
    \* the process: the command, where the main thread is, the exit code (-1: running)
    command, pc, exit_code,
    \* the SpotifyConnection of spotify_connect: [client, userid, authed]
    connection,
    \* the output directory: file name -> file, kept from one run to the next
    fs,
    \* the number of the run against that directory
    run,
    \* args.directory can be created (from-spotify, from-youtube)
    dir_ok,
    \* history: the calls of output_dir.mkdir so far
    mkdir_calls,
    \* from-spotify: arguments
    playlist_id, num_cores,
    \* from-spotify: the remote playlist
    sp_playlist,
    \* get_playlist_tracks: offset, tracks, the offsets requested so far
    offset, spotify_tracks, page_requests,
    \* the search futures and the list they fill
    search, tracks_with_youtube_url,
    \* the download futures, their results and the counts
    dl, dl_result, successful_downloads, failed_downloads,
    \* history: per track index, the outcomes of the searches made in this run, the calls
    \* of download_track_from_youtube, the outcomes of the downloader's runs
    search_calls, download_calls, ydl_calls,
    \* history: tracks a previous run downloaded successfully
    prev_ok,
    \* from-youtube: argument, the remote playlist
    playlist_url, yt_playlist,
    \* the downloader: the entry it is at and its stage, hook firings for it, its code
    yt_pos, yt_stage, hooks_fired, ret_code,
    \* history: per entry the media downloads of this run; the entries this run, and
    \* the entries an earlier run, downloaded, renamed and tagged
    yt_fetches, yt_ok, yt_prev_ok,
    \* rename_hook: where it stands and its local names
    hook,
    \* to-spotify: the local directory in the order the walk visits it, the user's
    \* playlists as the listing returns them
    directory, remote_playlists,
    \* run_sync_to_spotify: the file the walk is at, its locals
    scan_pos, n_mp3, tracks_found_on_spotify, playlist, tracks_to_add_urls, chunk_no,
    added_count,
    \* history: per file examined whether it yielded a track and how its search ended,
    \* the outcomes of the listing calls, the playlist creations, the add calls
    scan_log, list_calls, created, add_calls,
    \* history: file renames so far; rename-then-retag sequences per target name
    renames, cycles,
    \* a function called on its own: which one ("none" before the call), its argument,
    \* what it returned
    call, arg, result

procVars == <<command, pc, exit_code, connection, run>>
dirVars == <<dir_ok, mkdir_calls, fs, renames, cycles>>
fromArgs == <<playlist_id, num_cores, sp_playlist>>
fetchVars == <<offset, spotify_tracks, page_requests>>
searchVars == <<search, tracks_with_youtube_url, search_calls>>
dlVars == <<dl, dl_result, successful_downloads, failed_downloads, download_calls, ydl_calls>>
fromVars == <<fromArgs, fetchVars, searchVars, dlVars, prev_ok>>
ytArgs == <<playlist_url, yt_playlist>>
ytHist == <<yt_fetches, yt_ok, yt_prev_ok>>
ytVars == <<ytArgs, yt_pos, yt_stage, hooks_fired, hook, ret_code, ytHist>>
toArgs == <<directory, remote_playlists>>
scanVars == <<scan_pos, n_mp3, tracks_found_on_spotify, scan_log>>
ensureVars == <<playlist, list_calls, created>>
addVars == <<tracks_to_add_urls, chunk_no, added_count, add_calls>>
toVars == <<toArgs, scanVars, ensureVars, addVars>>
fnVars == <<call, arg, result>>
vars == <<procVars, dirVars, fromVars, ytVars, toVars, fnVars>>

NoConnection == [client |-> FALSE, userid |-> FALSE, authed |-> FALSE]

\* the local state of one run of from-spotify, before it starts
FromReset ==
    /\ offset = 0
    /\ spotify_tracks = <<>>
    /\ page_requests = <<>>
    /\ search = <<>>
    /\ tracks_with_youtube_url = <<>>
    /\ search_calls = <<>>
    /\ dl = <<>>
    /\ dl_result = <<>>
    /\ successful_downloads = 0
    /\ failed_downloads = 0
    /\ download_calls = <<>>
    /\ ydl_calls = <<>>

\* from-youtube before it runs
YtIdle ==
    /\ playlist_url = <<>>
    /\ yt_playlist = <<>>
    /\ yt_pos = 0
    /\ yt_stage = "idle"
    /\ hooks_fired = 0
    /\ hook = [at |-> "idle", final_filepath |-> None, new_filepath |-> None,
               artist_guess |-> None, cleaned_title |-> None, renamed |-> FALSE]
    /\ ret_code = 0
    /\ yt_fetches = <<>>
    /\ yt_ok = {}
    /\ yt_prev_ok = {}

\* no function is called on its own
FnIdle ==
    /\ call = "none"
    /\ arg = <<>>
    /\ result = <<>>

\* "no playlist": the None of spotify_check_playlist
NoPlaylist == [id |-> None, name |-> None]

\* the local state of run_sync_to_spotify before it starts
ToReset ==
    /\ scan_pos = 0
    /\ n_mp3 = 0
    /\ tracks_found_on_spotify = <<>>
    /\ scan_log = <<>>
    /\ playlist = NoPlaylist
    /\ list_calls = <<>>
    /\ created = <<>>
    /\ tracks_to_add_urls = <<>>
    /\ chunk_no = 0
    /\ added_count = 0
    /\ add_calls = <<>>

\* to-spotify before it runs
ToIdle ==
    /\ directory = <<>>
    /\ remote_playlists = <<>>
    /\ ToReset

\* from-spotify before it runs
FromIdle ==
    /\ playlist_id = <<>>
    /\ num_cores = 0
    /\ sp_playlist = <<>>
    /\ prev_ok = {}
    /\ FromReset

\* the process at its start, the output directory empty
InitProc ==
    /\ pc = "dispatch"
    /\ exit_code = -1
    /\ connection = NoConnection
    /\ run = 1
    /\ mkdir_calls = 0
    /\ fs = <<>>
    /\ renames = 0
    /\ cycles = <<>>
    /\ FnIdle

InitFrom ==
    /\ command = "from-spotify"
    /\ InitProc
    /\ dir_ok \in BOOLEAN
    /\ playlist_id \in {<<"p">>, <<>>}
    /\ num_cores \in 0..MaxCores
    /\ sp_playlist \in Selections(AllItems, MaxTracks)
    /\ prev_ok = {}
    /\ FromReset
    /\ YtIdle
    /\ ToIdle

Return(code) == pc' = "done" /\ exit_code' = code

(***************************************************************************)
(* spotify_connect and main_dispatcher.                                    *)
(***************************************************************************)
\* what spotify_connect returns: "ok" a user, "noinfo" no user info, "error" the
\* unauthenticated client of the except branch
spotify_connect(outcome) ==
    CASE outcome = "ok" -> [client |-> TRUE, userid |-> TRUE, authed |-> TRUE]
      [] outcome = "noinfo" -> [client |-> TRUE, userid |-> FALSE, authed |-> TRUE]
      [] outcome = "error" -> [client |-> TRUE, userid |-> FALSE, authed |-> FALSE]

\* main_dispatcher handing from-spotify to run_sync_to_spotify
DispatchFromAsTo ==
    /\ pc = "dispatch" /\ command = "from-spotify"
    /\ \E outcome \in {"ok", "noinfo", "error", "fatal"} :
        IF outcome = "fatal"
        THEN Return(1) /\ UNCHANGED <<connection, scan_pos>>
        ELSE /\ connection' = spotify_connect(outcome)
             /\ IF ~connection'.client THEN Return(1) /\ UNCHANGED scan_pos
                ELSE pc' = "to_scan" /\ scan_pos' = 1 /\ UNCHANGED exit_code
    /\ UNCHANGED <<fnVars, command, run, dirVars, fromVars, ytVars, toArgs, n_mp3,
                   tracks_found_on_spotify, scan_log, ensureVars, addVars>>

\* main_dispatcher for from-spotify; "fatal" is the sys.exit(1) of spotify_connect
DispatchFrom ==
    /\ pc = "dispatch" /\ command = "from-spotify"
    /\ \E outcome \in {"ok", "noinfo", "error", "fatal"} :
        IF outcome = "fatal"
        THEN Return(1) /\ UNCHANGED connection
        ELSE /\ connection' = spotify_connect(outcome)
             /\ IF ~connection'.client THEN Return(1)
                ELSE pc' = "from_start" /\ UNCHANGED exit_code
    /\ UNCHANGED <<fnVars, command, run, dirVars, fromVars, ytVars, toVars>>

(***************************************************************************)
(* run_sync_from_spotify.                                                  *)
(***************************************************************************)
\* FromStart without its two early returns: the fetch follows in every case
FromStartUnchecked ==
    /\ pc = "from_start"
    /\ mkdir_calls' = mkdir_calls + 1
    /\ pc' = "fetch" /\ UNCHANGED exit_code
    /\ UNCHANGED <<fnVars, command, connection, run, dir_ok, fs, renames, cycles, fromVars, ytVars,
                   toVars>>

\* the argument check, then output_dir.mkdir, which raises when dir_ok is false
FromStart ==
    /\ pc = "from_start"
    /\ IF ~Truthy(playlist_id) THEN Return(1) /\ UNCHANGED mkdir_calls
       ELSE /\ mkdir_calls' = mkdir_calls + 1
            /\ IF ~dir_ok THEN Return(1)
               ELSE pc' = "fetch" /\ UNCHANGED exit_code
    /\ UNCHANGED <<fnVars, command, connection, run, dir_ok, fs, renames, cycles, fromVars, ytVars,
                   toVars>>

\* PageTracks keeping every item of the page, whatever its metadata
PageTracksAll(items) ==
    [k \in 1..Len(items) |->
        TrackInfo(items[k].artist, items[k].album, items[k].name, items[k].id)]

\* the tracks of one page that get_playlist_tracks keeps
RECURSIVE PageTracks(_)
PageTracks(items) ==
    IF items = <<>> THEN <<>>
    ELSE LET item == Head(items)
             track_info == TrackInfo(item.artist, item.album, item.name, item.id)
         IN (IF is_valid_for_youtube_search(track_info) THEN <<track_info>> ELSE <<>>)
            \o PageTracks(Tail(items))

\* playlist_items(playlist_id, offset=offset): one page of the remote playlist
PlaylistItems(off) ==
    SubSeq(sp_playlist, off + 1, IF off + PageSize < Len(sp_playlist)
                                 THEN off + PageSize ELSE Len(sp_playlist))

\* max_workers_to_use: 0 stands for None, the executor's own default
max_workers_to_use == IF num_cores > 0 THEN num_cores ELSE 0

\* what follows get_playlist_tracks: return 1 on no track, else submit the searches
AfterFetch(tracks) ==
    IF tracks = <<>> THEN Return(1) /\ UNCHANGED searchVars
    ELSE /\ pc' = "search" /\ UNCHANGED exit_code
         /\ search' = [i \in 1..Len(tracks) |-> "submitted"]
         /\ search_calls' = [i \in 1..Len(tracks) |-> <<>>]
         /\ UNCHANGED tracks_with_youtube_url

\* one iteration of the loop of get_playlist_tracks; "error" is a raised exception
\* (every call of an unauthenticated client raises), "empty" a response without results
FetchPage ==
    /\ pc = "fetch"
    /\ \E outcome \in {"page", "error", "empty"} :
        /\ ~connection.authed => outcome = "error"
        /\ page_requests' = Append(page_requests, [offset |-> offset, outcome |-> outcome])
        /\ LET items == PlaylistItems(offset)
           IN IF outcome = "page" /\ items # <<>>
              THEN /\ spotify_tracks' = spotify_tracks \o PageTracks(items)
                   /\ offset' = offset + Len(items)
                   /\ UNCHANGED <<pc, exit_code, searchVars>>
              ELSE /\ UNCHANGED <<offset, spotify_tracks>>
                   /\ AfterFetch(spotify_tracks)
    /\ UNCHANGED <<fnVars, command, connection, run, dirVars, fromArgs, dlVars, prev_ok, ytVars, toVars>>

\* search_youtube without its except branch's None: an error still hands back a link
search_youtube_leaky(track, outcome) ==
    IF ~is_valid_for_youtube_search(track) THEN None
    ELSE IF outcome \in {"found", "error"} THEN YoutubeUrlOf(track) ELSE None

\* search_youtube(track) in a worker: "found" a link, "none" no usable result,
\* "error" an exception, which search_youtube catches
search_youtube(track, outcome) ==
    IF ~is_valid_for_youtube_search(track) THEN None
    ELSE IF outcome = "found" THEN YoutubeUrlOf(track) ELSE None

\* a worker thread of the search pool can take task i: the pool hands the tasks out
\* in submission order, so fewer than max_workers earlier tasks are unfinished
SearchWorkerFree(i) ==
    \/ max_workers_to_use = 0
    \/ Cardinality({j \in 1..(i - 1) : search[j] = "submitted"}) < max_workers_to_use

\* search_youtube(track) runs in a worker and its future completes
SearchRun(i) ==
    /\ pc = "search"
    /\ search[i] = "submitted"
    /\ SearchWorkerFree(i)
    /\ \E outcome \in {"found", "none", "error"} :
        LET youtube_url == search_youtube(spotify_tracks[i], outcome)
        IN /\ search' = [search EXCEPT ![i] = IF Truthy(youtube_url) THEN "found"
                                              ELSE "missing"]
           /\ search_calls' = [search_calls EXCEPT ![i] = Append(@, outcome)]
    /\ UNCHANGED <<fnVars, procVars, dirVars, fromArgs, fetchVars, tracks_with_youtube_url,
                   dlVars, prev_ok, ytVars, toVars>>

\* what follows the search phase: return 1 on no URL, else submit the downloads
AfterSearch(resolved) ==
    IF resolved = <<>> THEN Return(1) /\ UNCHANGED dlVars
    ELSE /\ pc' = "download" /\ UNCHANGED exit_code
         /\ dl' = [i \in 1..Len(spotify_tracks) |->
                     IF \E k \in 1..Len(resolved) : resolved[k] = i
                     THEN "submitted" ELSE "none"]
         /\ dl_result' = [i \in 1..Len(spotify_tracks) |-> FALSE]
         /\ download_calls' = [i \in 1..Len(spotify_tracks) |-> 0]
         /\ ydl_calls' = [i \in 1..Len(spotify_tracks) |-> <<>>]
         /\ UNCHANGED <<successful_downloads, failed_downloads>>

\* SearchCollect handing the downloads out as soon as one future is collected
SearchCollectEager(i) ==
    /\ pc = "search"
    /\ search[i] \in {"found", "missing"}
    /\ search' = [search EXCEPT ![i] = "collected"]
    /\ LET youtube_url == IF search[i] = "found" THEN YoutubeUrlOf(spotify_tracks[i]) ELSE None
           resolved == IF Truthy(youtube_url)
                       THEN Append(tracks_with_youtube_url, i)
                       ELSE tracks_with_youtube_url
       IN /\ spotify_tracks' = IF Truthy(youtube_url)
                               THEN [spotify_tracks EXCEPT ![i].youtube_url = youtube_url]
                               ELSE spotify_tracks
          /\ tracks_with_youtube_url' = resolved
          /\ AfterSearch(resolved)
    /\ UNCHANGED <<fnVars, command, connection, run, dirVars, fromArgs, offset, page_requests,
                   search_calls, prev_ok, ytVars, toVars>>

\* the main thread takes one completed search future (as_completed)
SearchCollect(i) ==
    /\ pc = "search"
    /\ search[i] \in {"found", "missing"}
    /\ search' = [search EXCEPT ![i] = "collected"]
    /\ LET youtube_url == IF search[i] = "found" THEN YoutubeUrlOf(spotify_tracks[i]) ELSE None
           resolved == IF Truthy(youtube_url)
                       THEN Append(tracks_with_youtube_url, i)
                       ELSE tracks_with_youtube_url
       IN /\ spotify_tracks' = IF Truthy(youtube_url)
                               THEN [spotify_tracks EXCEPT ![i].youtube_url = youtube_url]
                               ELSE spotify_tracks
          /\ tracks_with_youtube_url' = resolved
          /\ IF \A j \in DOMAIN search' : search'[j] = "collected"
             THEN AfterSearch(resolved)
             ELSE UNCHANGED <<pc, exit_code, dlVars>>
    /\ UNCHANGED <<fnVars, command, connection, run, dirVars, fromArgs, offset, page_requests,
                   search_calls, prev_ok, ytVars, toVars>>

\* a file as the external downloader leaves it: its source and its tags
YdlFile(src, title, artist) ==
    [src |-> src, title |-> title, artist |-> artist, album |-> None, comment |-> None]

\* fs with file f written at path (created or replaced)
WriteFile(files, path, f) ==
    [q \in DOMAIN files \cup {path} |-> IF q = path THEN f ELSE files[q]]

\* add_metadata up to the save of the basic tags: title, artist and album written
\* where the track has them; nothing is written for a missing file or when the tag
\* library raises ("error")
add_metadata(files, mp3_path, track, outcome) ==
    IF mp3_path \notin DOMAIN files \/ outcome = "error" THEN files
    ELSE [files EXCEPT ![mp3_path] =
            [@ EXCEPT !.title = IF Truthy(track.title) THEN track.title ELSE @,
                      !.artist = IF Truthy(track.artist) THEN track.artist ELSE @,
                      !.album = IF Truthy(track.album) THEN track.album ELSE @]]

Exists(path) == path \in DOMAIN fs

\* the place of track i in the submission order of the downloads
PosOf(i) == CHOOSE k \in 1..Len(tracks_with_youtube_url) : tracks_with_youtube_url[k] = i

\* a worker thread holds task j: it runs, or it was queued before i and has not moved
\* (the executor hands the queue out in submission order)
HoldsWorker(j, i) ==
    \/ dl[j] \in {"fetch", "verify"}
    \/ dl[j] = "submitted" /\ PosOf(j) < PosOf(i)

\* WorkerFree without the limit of the pool: every submitted task runs at once
WorkerFreeAlways(i) == TRUE

WorkerFree(i) ==
    \/ max_workers_to_use = 0
    \/ Cardinality({j \in DOMAIN dl : j # i /\ HoldsWorker(j, i)}) < max_workers_to_use

\* DlCheck taking the link off the track as it hands it to the downloader
DlCheckConsuming(i) ==
    /\ pc = "download"
    /\ dl[i] = "submitted"
    /\ WorkerFree(i)
    /\ download_calls' = [download_calls EXCEPT ![i] = @ + 1]
    /\ spotify_tracks' = [spotify_tracks EXCEPT ![i].youtube_url = None]
    /\ LET track == spotify_tracks[i]
       IN IF ~Truthy(track.youtube_url) \/ ~Truthy(track.artist) \/ ~Truthy(track.title)
          THEN /\ dl' = [dl EXCEPT ![i] = "done"]
               /\ dl_result' = [dl_result EXCEPT ![i] = FALSE]
          ELSE IF Exists(Mp3Path(track))
          THEN /\ dl' = [dl EXCEPT ![i] = "done"]
               /\ dl_result' = [dl_result EXCEPT ![i] = TRUE]
          ELSE /\ dl' = [dl EXCEPT ![i] = "fetch"]
               /\ UNCHANGED dl_result
    /\ UNCHANGED <<fnVars, procVars, dirVars, fromArgs, offset, page_requests, searchVars,
                   successful_downloads, failed_downloads, ydl_calls, prev_ok, ytVars, toVars>>

\* download_track_from_youtube up to its existence check
DlCheck(i) ==
    /\ pc = "download"
    /\ dl[i] = "submitted"
    /\ WorkerFree(i)
    /\ download_calls' = [download_calls EXCEPT ![i] = @ + 1]
    /\ LET track == spotify_tracks[i]
       IN IF ~Truthy(track.youtube_url) \/ ~Truthy(track.artist) \/ ~Truthy(track.title)
          THEN /\ dl' = [dl EXCEPT ![i] = "done"]
               /\ dl_result' = [dl_result EXCEPT ![i] = FALSE]
          ELSE IF Exists(Mp3Path(track))
          THEN /\ dl' = [dl EXCEPT ![i] = "done"]
               /\ dl_result' = [dl_result EXCEPT ![i] = TRUE]
          ELSE /\ dl' = [dl EXCEPT ![i] = "fetch"]
               /\ UNCHANGED dl_result
    /\ UNCHANGED <<fnVars, procVars, dirVars, fromArgs, fetchVars, searchVars,
                   successful_downloads, failed_downloads, ydl_calls, prev_ok, ytVars, toVars>>

\* DlFetch with the exception of one download ending the whole run
DlFetchAborting(i) ==
    /\ pc = "download"
    /\ dl[i] = "fetch"
    /\ \E outcome \in {"ok", "nofile", "code", "partial", "raise"} :
        LET track == spotify_tracks[i]
        IN /\ ydl_calls' = [ydl_calls EXCEPT ![i] = Append(@, outcome)]
           /\ fs' = IF outcome \in {"ok", "partial"}
                    THEN WriteFile(fs, Mp3Path(track), YdlFile(track.youtube_url, None, None))
                    ELSE fs
           /\ IF outcome \in {"ok", "nofile"}
              THEN dl' = [dl EXCEPT ![i] = "verify"] /\ UNCHANGED <<dl_result, pc, exit_code>>
              ELSE /\ dl' = [dl EXCEPT ![i] = "done"]
                   /\ dl_result' = [dl_result EXCEPT ![i] = FALSE]
                   /\ IF outcome = "raise" THEN Return(1) ELSE UNCHANGED <<pc, exit_code>>
    /\ UNCHANGED <<fnVars, command, connection, run, dir_ok, mkdir_calls, renames, cycles, fromArgs, fetchVars,
                   searchVars, successful_downloads, failed_downloads, download_calls, prev_ok,
                   ytVars, toVars>>

\* ydl.download([track.youtube_url]): "ok" code 0 and the file written, "nofile" code 0
\* and no file, "code" a non-zero code, "partial" a non-zero code after the file was
\* written, "raise" an exception
DlFetch(i) ==
    /\ pc = "download"
    /\ dl[i] = "fetch"
    /\ \E outcome \in {"ok", "nofile", "code", "partial", "raise"} :
        LET track == spotify_tracks[i]
        IN /\ ydl_calls' = [ydl_calls EXCEPT ![i] = Append(@, outcome)]
           /\ fs' = IF outcome \in {"ok", "partial"}
                    THEN WriteFile(fs, Mp3Path(track), YdlFile(track.youtube_url, None, None))
                    ELSE fs
           /\ IF outcome \in {"ok", "nofile"}
              THEN dl' = [dl EXCEPT ![i] = "verify"] /\ UNCHANGED dl_result
              ELSE /\ dl' = [dl EXCEPT ![i] = "done"]
                   /\ dl_result' = [dl_result EXCEPT ![i] = FALSE]
    /\ UNCHANGED <<fnVars, procVars, dir_ok, mkdir_calls, renames, cycles, fromArgs, fetchVars, searchVars,
                   successful_downloads, failed_downloads, download_calls, prev_ok, ytVars, toVars>>

\* error_code == 0: the result is mp3_path.exists()
DlVerify(i) ==
    /\ pc = "download"
    /\ dl[i] = "verify"
    /\ dl' = [dl EXCEPT ![i] = "done"]
    /\ dl_result' = [dl_result EXCEPT ![i] = Exists(Mp3Path(spotify_tracks[i]))]
    /\ UNCHANGED <<fnVars, procVars, dirVars, fromArgs, fetchVars, searchVars,
                   successful_downloads, failed_downloads, download_calls, ydl_calls, prev_ok,
                   ytVars, toVars>>

\* DlCollect without the count of the failed downloads
DlCollectUncounted(i) ==
    /\ pc = "download"
    /\ dl[i] = "done"
    /\ dl' = [dl EXCEPT ![i] = "collected"]
    /\ successful_downloads' = IF dl_result[i] THEN successful_downloads + 1
                               ELSE successful_downloads
    /\ UNCHANGED failed_downloads
    /\ IF \A j \in DOMAIN dl' : dl'[j] \in {"collected", "none"}
       THEN Return(0)
       ELSE UNCHANGED <<pc, exit_code>>
    /\ UNCHANGED <<fnVars, command, connection, run, dirVars, fromArgs, fetchVars, searchVars,
                   dl_result, download_calls, ydl_calls, prev_ok, ytVars, toVars>>

\* the main thread takes one completed download future; after the last, the summary
DlCollect(i) ==
    /\ pc = "download"
    /\ dl[i] = "done"
    /\ dl' = [dl EXCEPT ![i] = "collected"]
    /\ IF dl_result[i]
       THEN successful_downloads' = successful_downloads + 1 /\ UNCHANGED failed_downloads
       ELSE failed_downloads' = failed_downloads + 1 /\ UNCHANGED successful_downloads
    /\ IF \A j \in DOMAIN dl' : dl'[j] \in {"collected", "none"}
       THEN Return(0)
       ELSE UNCHANGED <<pc, exit_code>>
    /\ UNCHANGED <<fnVars, command, connection, run, dirVars, fromArgs, fetchVars, searchVars,
                   dl_result, download_calls, ydl_calls, prev_ok, ytVars, toVars>>

\* the tracks (by Spotify id) whose download_track_from_youtube returned True in this run
OkNow == {spotify_tracks[i].spotify_id : i \in {j \in DOMAIN dl : dl[j] = "collected" /\ dl_result[j]}}

\* the same command is run again on the same output directory
RestartFrom ==
    /\ pc = "done" /\ command = "from-spotify"
    /\ run < MaxRuns
    /\ run' = run + 1
    /\ pc' = "dispatch"
    /\ exit_code' = -1
    /\ connection' = NoConnection
    /\ prev_ok' = prev_ok \cup OkNow
    /\ offset' = 0
    /\ spotify_tracks' = <<>>
    /\ page_requests' = <<>>
    /\ search' = <<>>
    /\ tracks_with_youtube_url' = <<>>
    /\ search_calls' = <<>>
    /\ dl' = <<>>
    /\ dl_result' = <<>>
    /\ successful_downloads' = 0
    /\ failed_downloads' = 0
    /\ download_calls' = <<>>
    /\ ydl_calls' = <<>>
    /\ UNCHANGED <<fnVars, command, dirVars, fromArgs, ytVars, toVars>>

\* one run of from-spotify
RunFrom ==
    \/ DispatchFrom
    \/ FromStart
    \/ FetchPage
    \/ \E i \in DOMAIN search : SearchRun(i)
    \/ \E i \in DOMAIN search : SearchCollect(i)
    \/ \E i \in DOMAIN dl : DlCheck(i)
    \/ \E i \in DOMAIN dl : DlFetch(i)
    \/ \E i \in DOMAIN dl : DlVerify(i)
    \/ \E i \in DOMAIN dl : DlCollect(i)

\* from-spotify, run again and again on the same output directory
NextFrom == RunFrom \/ RestartFrom

SpecFromRun == InitFrom /\ [][RunFrom]_vars

SpecFrom == InitFrom /\ [][NextFrom]_vars

(***************************************************************************)
(* rename_hook and _write_youtube_tags.                                    *)
(***************************************************************************)
Digits == <<"0", "1", "2", "3", "4", "5", "6", "7", "8", "9">>

\* str(info_dict.get('playlist_index', '00')).zfill(2), for an index below 100;
\* playlist_index is <<n>>, or <<>> when the dictionary has no such key
IndexText(playlist_index) ==
    IF playlist_index = <<>> THEN <<"0", "0">>
    ELSE LET n == playlist_index[1]
         IN IF n < 10 THEN <<"0", Digits[n + 1]>>
            ELSE <<Digits[(n \div 10) + 1], Digits[(n % 10) + 1]>>

UnknownArtist == <<"U","n","k","n","o","w","n"," ","A","r","t","i","s","t">>

\* artist_guess of rename_hook
ArtistGuess(info_dict) ==
    IF Truthy(info_dict.uploader) THEN info_dict.uploader
    ELSE IF Truthy(info_dict.channel) THEN info_dict.channel
    ELSE UnknownArtist

\* new_filename of rename_hook
NewFilename(playlist_index, artist_guess, cleaned_title) ==
    sanitize_filename(IndexText(playlist_index) \o <<" ", "-", " ">> \o artist_guess
                      \o <<" ", "-", " ">> \o cleaned_title) \o Ext

\* the file the downloader writes for an entry (outtmpl "%(id)s.%(ext)s", mp3)
TempPath(video) == video.id \o Ext
\* an intermediate file of the entry that is no mp3
OtherPath(video) == video.id \o <<".", "w", "e", "b", "m">>

\* final_filepath.rename(new_filepath): the target is replaced when it exists
RenameFile(files, from, to) ==
    [q \in (DOMAIN files \ {from}) \cup {to} |-> IF q = to THEN files[from] ELSE files[q]]

\* _write_youtube_tags: title and artist set, album dropped with a title, saved;
\* nothing is saved when the tag library raises ("error")
_write_youtube_tags(files, filepath, artist, title, outcome) ==
    IF filepath \notin DOMAIN files \/ outcome = "error" THEN files
    ELSE [files EXCEPT ![filepath] =
            [@ EXCEPT !.title = IF Truthy(title) THEN title ELSE @,
                      !.album = IF Truthy(title) THEN None ELSE @,
                      !.artist = IF Truthy(artist) THEN artist ELSE @]]

Count(f, x) == IF x \in DOMAIN f THEN f[x] ELSE 0
Bump(f, x) == [q \in DOMAIN f \cup {x} |-> IF q = x THEN Count(f, x) + 1 ELSE f[q]]

\* the hook is not running
HookIdle == [at |-> "idle", final_filepath |-> None, new_filepath |-> None,
             artist_guess |-> None, cleaned_title |-> None, renamed |-> FALSE]

\* rename_hook(d) up to "Perform Rename": where the hook stands after it
HookEntry(files, d) ==
    LET info_dict == d.info_dict
        final_filepath == IF Truthy(info_dict.filepath) THEN info_dict.filepath
                          ELSE d.filename
        artist_guess == ArtistGuess(info_dict)
        cleaned_title == _parse_youtube_title(info_dict.title)
        new_filepath == NewFilename(info_dict.playlist_index, artist_guess, cleaned_title)
    IN IF d.status # "finished" THEN HookIdle
       ELSE IF ~Truthy(final_filepath) THEN HookIdle
       ELSE IF final_filepath \notin DOMAIN files
               \/ [k \in 1..Len(Suffix(final_filepath)) |-> Lower(Suffix(final_filepath)[k])] # Ext
       THEN HookIdle
       ELSE [at |-> IF final_filepath = new_filepath THEN "tags" ELSE "rename",
             final_filepath |-> final_filepath, new_filepath |-> new_filepath,
             artist_guess |-> artist_guess, cleaned_title |-> cleaned_title,
             renamed |-> FALSE]

(***************************************************************************)
(* run_sync_from_youtube.                                                  *)
(***************************************************************************)
InitYt ==
    /\ command = "from-youtube"
    /\ InitProc
    /\ dir_ok \in BOOLEAN
    /\ playlist_url \in {<<"l">>, <<>>}
    /\ yt_playlist \in Selections(AllVideos, MaxTracks)
    /\ yt_pos = 0
    /\ yt_stage = "idle"
    /\ hooks_fired = 0
    /\ hook = HookIdle
    /\ ret_code = 0
    /\ yt_fetches = <<>>
    /\ yt_ok = {}
    /\ yt_prev_ok = {}
    /\ FromIdle
    /\ ToIdle

\* main_dispatcher for from-youtube: no Spotify connection
DispatchYt ==
    /\ pc = "dispatch" /\ command = "from-youtube"
    /\ pc' = "yt_start"
    /\ UNCHANGED <<fnVars, command, exit_code, connection, run, dirVars, fromVars, ytVars, toVars>>

\* the argument check, then output_dir.mkdir, which raises when dir_ok is false
YtStart ==
    /\ pc = "yt_start"
    /\ mkdir_calls' = IF Truthy(playlist_url) THEN mkdir_calls + 1 ELSE mkdir_calls
    /\ IF ~Truthy(playlist_url) \/ ~dir_ok
       THEN Return(1) /\ UNCHANGED <<yt_pos, yt_stage, yt_fetches>>
       ELSE /\ pc' = "yt_download" /\ yt_pos' = 1 /\ yt_stage' = "new"
            /\ yt_fetches' = [k \in 1..Len(yt_playlist) |-> 0]
            /\ UNCHANGED exit_code
    /\ UNCHANGED <<fnVars, command, connection, run, dir_ok, fs, renames, cycles, fromVars, toVars,
                   ytArgs, hooks_fired, hook, ret_code, yt_ok, yt_prev_ok>>

\* the downloader fetches and converts the entry it is at: "ok" leaves <id>.mp3,
\* "fail" reports an error for the entry (ignoreerrors) and goes on
YtEntry ==
    /\ pc = "yt_download" /\ yt_stage = "new"
    /\ yt_pos <= Len(yt_playlist)
    /\ \E outcome \in {"ok", "fail"} :
        LET video == yt_playlist[yt_pos]
        IN IF outcome = "ok"
           THEN /\ fs' = WriteFile(fs, TempPath(video),
                           [YdlFile(video.id, video.title, ArtistGuess(video))
                               EXCEPT !.album = video.album])
                /\ yt_stage' = "post"
                /\ yt_fetches' = [yt_fetches EXCEPT ![yt_pos] = @ + 1]
                /\ UNCHANGED <<yt_pos, ret_code>>
           ELSE /\ ret_code' = 1
                /\ yt_pos' = yt_pos + 1
                /\ UNCHANGED <<fs, yt_stage, yt_fetches>>
    /\ UNCHANGED <<fnVars, procVars, dir_ok, mkdir_calls, renames, cycles, fromVars, toVars, ytArgs, hooks_fired,
                   hook, yt_ok, yt_prev_ok>>

\* the dictionary the downloader hands to the hook for the entry it is at
HookArg(status, filepath, filename) ==
    LET video == yt_playlist[yt_pos]
    IN [status |-> status, filename |-> filename,
        info_dict |-> [filepath |-> filepath, title |-> video.title,
                       uploader |-> video.uploader, channel |-> video.channel,
                       playlist_index |-> IF video.has_index THEN <<yt_pos>> ELSE <<>>]]

\* the downloader fires the post-processing hook for the entry it is at
YtHook ==
    /\ pc = "yt_download" /\ yt_stage = "post"
    /\ hook.at = "idle"
    /\ hooks_fired < MaxHooks
    /\ hooks_fired' = hooks_fired + 1
    /\ \E status \in {"started", "finished"},
          filepath \in {None, OtherPath(yt_playlist[yt_pos]), TempPath(yt_playlist[yt_pos])},
          filename \in {None, TempPath(yt_playlist[yt_pos])} :
        hook' = HookEntry(fs, HookArg(status, filepath, filename))
    /\ UNCHANGED <<fnVars, procVars, dirVars, fromVars, toVars, ytArgs, yt_pos, yt_stage, ret_code,
                   ytHist>>

\* "Perform Rename" of rename_hook: "ok" the file is renamed, "oserror" the rename
\* raises OSError, "exception" it raises something else
YtHookRename ==
    /\ pc = "yt_download" /\ hook.at = "rename"
    /\ \E outcome \in {"ok", "oserror", "exception"} :
        CASE outcome = "ok" ->
               /\ fs' = RenameFile(fs, hook.final_filepath, hook.new_filepath)
               /\ renames' = renames + 1
               /\ hook' = [hook EXCEPT !.at = "tags", !.renamed = TRUE]
          [] outcome = "oserror" ->
               /\ hook' = IF hook.final_filepath \in DOMAIN fs
                          THEN [hook EXCEPT !.at = "tags"]
                          ELSE HookIdle
               /\ UNCHANGED <<fs, renames>>
          [] outcome = "exception" ->
               /\ hook' = HookIdle
               /\ UNCHANGED <<fs, renames>>
    /\ UNCHANGED <<fnVars, procVars, dir_ok, mkdir_calls, cycles, fromVars, toVars, ytArgs, yt_pos, yt_stage,
                   hooks_fired, ret_code, ytHist>>

\* "Write Corrected ID3 Tags" of rename_hook, on the path the rename step left
YtHookTags ==
    /\ pc = "yt_download" /\ hook.at = "tags"
    /\ \E outcome \in {"ok", "error"} :
        /\ fs' = _write_youtube_tags(fs, IF hook.renamed THEN hook.new_filepath
                                         ELSE hook.final_filepath,
                                     hook.artist_guess, hook.cleaned_title, outcome)
        /\ yt_ok' = IF hook.renamed /\ outcome = "ok" THEN yt_ok \cup {yt_pos} ELSE yt_ok
    /\ cycles' = IF hook.renamed THEN Bump(cycles, hook.new_filepath) ELSE cycles
    /\ hook' = HookIdle
    /\ UNCHANGED <<fnVars, procVars, dir_ok, mkdir_calls, renames, fromVars, toVars, ytArgs, yt_pos, yt_stage,
                   hooks_fired, ret_code, yt_fetches, yt_prev_ok>>

\* the downloader goes on to the next entry
YtEntryDone ==
    /\ pc = "yt_download" /\ yt_stage = "post"
    /\ hook.at = "idle"
    /\ yt_pos' = yt_pos + 1
    /\ yt_stage' = "new"
    /\ hooks_fired' = 0
    /\ UNCHANGED <<fnVars, procVars, dirVars, fromVars, toVars, ytArgs, hook, ret_code, ytHist>>

\* ydl.download returns its code after the last entry, or raises
YtFinish ==
    /\ pc = "yt_download"
    /\ hook.at = "idle"
    /\ \E outcome \in {"return", "raise"} :
        /\ outcome = "return" => yt_stage = "new" /\ yt_pos > Len(yt_playlist)
        /\ yt_stage' = IF outcome = "raise" THEN "raised" ELSE yt_stage
        /\ Return(IF outcome = "return" /\ ret_code = 0 THEN 0 ELSE 1)
    /\ UNCHANGED <<fnVars, command, connection, run, dirVars, fromVars, toVars, ytArgs, yt_pos,
                   hooks_fired, hook, ret_code, ytHist>>

\* the same command is run again on the same output directory
RestartYt ==
    /\ pc = "done" /\ command = "from-youtube"
    /\ run < MaxRuns
    /\ run' = run + 1
    /\ pc' = "dispatch"
    /\ exit_code' = -1
    /\ yt_pos' = 0
    /\ yt_stage' = "idle"
    /\ hooks_fired' = 0
    /\ ret_code' = 0
    /\ yt_fetches' = <<>>
    /\ yt_ok' = {}
    /\ yt_prev_ok' = yt_prev_ok \cup yt_ok
    /\ UNCHANGED <<fnVars, command, connection, dirVars, fromVars, toVars, ytArgs, hook>>

\* one run of from-youtube
RunYt ==
    \/ DispatchYt
    \/ YtStart
    \/ YtEntry
    \/ YtHook
    \/ YtHookRename
    \/ YtHookTags
    \/ YtEntryDone
    \/ YtFinish

\* from-youtube, run again and again on the same output directory
NextYt == RunYt \/ RestartYt

SpecYt == InitYt /\ [][NextYt]_vars

(***************************************************************************)
(* Inputs of the model: the local directory and the user's playlists of    *)
(* to-spotify.                                                             *)
(***************************************************************************)
\* a local .mp3 file: whether it carries an ID3 tag, the tag's fields, and its path
\* as the recursive glob gives it, below the directory
LocalFile(tag, artist, album, title, filepath) ==
    [tag |-> tag, artist |-> artist, album |-> album, title |-> title,
     filepath |-> filepath]

\* tagged; tagged without a title; untagged "Artist - Album - Name"; untagged, one
\* part, in a subdirectory; untagged, four parts
FileTagged == LocalFile(TRUE, <<"A">>, <<"L">>, <<"T">>, <<"f">> \o Ext)
FileNoTitle == LocalFile(TRUE, <<"A">>, None, None, <<"L", "-", "W">> \o Ext)
FileThree == LocalFile(FALSE, None, None, None,
                       <<"B", " ", "-", "L", "-", " ", "U", "_", "V">> \o Ext)
FileBare == LocalFile(FALSE, None, None, None, <<"s", "/", "r", "_", "f">> \o Ext)
FileFour == LocalFile(FALSE, None, None, None, <<"1", "-", "C", "-", "L", "-", "X">> \o Ext)
AllFiles == <<FileTagged, FileNoTitle, FileThree, FileBare, FileFour>>

\* a number below 1000 as three digits
NumText(n) == <<Digits[(n \div 100) + 1], Digits[((n \div 10) % 10) + 1], Digits[(n % 10) + 1]>>

\* a directory of n tagged files with distinct titles
BulkDirectory(n) ==
    [k \in 1..n |-> LocalFile(TRUE, <<"A">>, <<"L">>, NumText(k), NumText(k) \o Ext)]

\* args.playlist
args_playlist == <<"P">>

\* playlists the user may own, as current_user_playlists lists them
RemoteLower == [name |-> <<"p">>, id |-> <<"1">>]
RemoteFirst == [name |-> <<"P">>, id |-> <<"2">>]
RemoteSecond == [name |-> <<"P">>, id |-> <<"3">>]
AllRemote == <<RemoteLower, RemoteFirst, RemoteSecond>>

\* the id Spotify gives a playlist it creates
NewPlaylistId == <<"n">>

\* what the catalog search finds for a track
SpotifyUrlOf(track) == <<"s", "/">> \o track.title
SpotifyIdOf(track) == <<"i", "/">> \o track.title

(***************************************************************************)
(* _parse_track_from_filename, mp3_walk_directory, list_chunks.            *)
(***************************************************************************)
TRACK_FORMAT_PARTS_4 == 4
TRACK_FORMAT_PARTS_3 == 3
TRACK_FORMAT_PARTS_2 == 2

\* str.replace that replaces nothing
ReplaceNothing(s) == s

\* str.replace("_", " ")
ReplaceUnderscore(s) == [k \in 1..Len(s) |-> IF s[k] = "_" THEN " " ELSE s[k]]

\* str.split("-"): the parts between hyphens, empty ones included
RECURSIVE SplitHyphen(_, _)
SplitHyphen(s, part) ==
    IF s = <<>> THEN <<part>>
    ELSE IF Head(s) = "-" THEN <<part>> \o SplitHyphen(Tail(s), <<>>)
    ELSE SplitHyphen(Tail(s), Append(part, Head(s)))

\* _parse_track_from_filename that keeps the first of four segments
_parse_track_keep_first(filepath) ==
    LET slashes == {k \in 1..Len(filepath) : filepath[k] = "/"}
        name == IF slashes = {} THEN filepath
                ELSE SubSeq(filepath, Max(slashes) + 1, Len(filepath))
        stem == SubSeq(name, 1, Len(name) - Len(Suffix(name)))
        filename == ReplaceUnderscore(stem)
        split == SplitHyphen(filename, <<>>)
        parts == [k \in 1..Len(split) |-> Strip(split[k])]
        num_parts == Len(parts)
        track == IF num_parts = TRACK_FORMAT_PARTS_4
                 THEN TrackInfo(parts[1], parts[2], parts[3], None)
                 ELSE IF num_parts = TRACK_FORMAT_PARTS_3
                 THEN TrackInfo(parts[1], parts[2], parts[3], None)
                 ELSE IF num_parts = TRACK_FORMAT_PARTS_2
                 THEN TrackInfo(None, parts[1], parts[2], None)
                 ELSE TrackInfo(None, None, filename, None)
    IN [track EXCEPT !.filename = filepath]

_parse_track_from_filename(filepath) ==
    LET slashes == {k \in 1..Len(filepath) : filepath[k] = "/"}
        name == IF slashes = {} THEN filepath
                ELSE SubSeq(filepath, Max(slashes) + 1, Len(filepath))
        stem == SubSeq(name, 1, Len(name) - Len(Suffix(name)))
        filename == ReplaceUnderscore(stem)
        split == SplitHyphen(filename, <<>>)
        parts == [k \in 1..Len(split) |-> Strip(split[k])]
        num_parts == Len(parts)
        track == IF num_parts = TRACK_FORMAT_PARTS_4
                 THEN TrackInfo(parts[2], parts[3], parts[4], None)
                 ELSE IF num_parts = TRACK_FORMAT_PARTS_3
                 THEN TrackInfo(parts[1], parts[2], parts[3], None)
                 ELSE IF num_parts = TRACK_FORMAT_PARTS_2
                 THEN TrackInfo(None, parts[1], parts[2], None)
                 ELSE TrackInfo(None, None, filename, None)
    IN [track EXCEPT !.filename = filepath]

\* one iteration of the loop of mp3_walk_directory: the tracks it yields for a file
\* (none or one); "error" is an exception while the file is processed
WalkFile(file, load) ==
    IF load = "error" THEN <<>>
    ELSE LET filepath == file.filepath
             track_info == IF file.tag
                           THEN [TrackInfo(file.artist, file.album, file.title, None)
                                    EXCEPT !.filename = filepath]
                           ELSE _parse_track_from_filename(filepath)
         IN IF is_valid_for_spotify_search(track_info) THEN <<track_info>> ELSE <<>>

\* list_chunks without the last, shorter chunk
list_chunks_full(lst, n) ==
    [k \in 1..(Len(lst) \div n) |-> SubSeq(lst, (k - 1) * n + 1, k * n)]

\* list(list_chunks(lst, n))
list_chunks(lst, n) ==
    [k \in 1..((Len(lst) + n - 1) \div n) |->
        SubSeq(lst, (k - 1) * n + 1, Min({k * n, Len(lst)}))]

(***************************************************************************)
(* spotify_check_playlist and spotify_create_playlist.                     *)
(***************************************************************************)
\* FirstMatch comparing the names without regard to case
RECURSIVE FirstMatchAnyCase(_, _, _)
FirstMatchAnyCase(items, playlistname, playlistid) ==
    IF items = <<>> THEN NoPlaylist
    ELSE IF Len(Head(items).name) = Len(playlistname)
            /\ MatchesAt(Head(items).name, 1, playlistname) THEN Head(items)
    ELSE IF Truthy(playlistid) /\ Head(items).id = playlistid THEN Head(items)
    ELSE FirstMatchAnyCase(Tail(items), playlistname, playlistid)

\* the first playlist of the listing with the name, or with the id when one is given
RECURSIVE FirstMatch(_, _, _)
FirstMatch(items, playlistname, playlistid) ==
    IF items = <<>> THEN NoPlaylist
    ELSE IF Head(items).name = playlistname THEN Head(items)
    ELSE IF Truthy(playlistid) /\ Head(items).id = playlistid THEN Head(items)
    ELSE FirstMatch(Tail(items), playlistname, playlistid)

\* "ok" the listing answers with its items, "malformed" with nothing usable,
\* "error" it raises
spotify_check_playlist(listing, playlistname, playlistid, outcome) ==
    IF outcome = "ok" THEN FirstMatch(listing, playlistname, playlistid) ELSE NoPlaylist

\* the id spotify_create_playlist returns: "ok" the playlist is created, "noid" the
\* response carries no id, "error" the call raises
spotify_create_playlist(conn, playlistname, outcome) ==
    IF ~conn.userid THEN None
    ELSE IF outcome = "ok" THEN NewPlaylistId ELSE None

(***************************************************************************)
(* run_sync_to_spotify.                                                    *)
(***************************************************************************)
\* the directory is listed in the order of glob("**/*.mp3"): the files at its top in
\* whatever order the operating system lists them, before those of subdirectories
InitTo ==
    /\ command = "to-spotify"
    /\ InitProc
    /\ dir_ok \in BOOLEAN
    /\ directory \in
          LET files == {AllFiles[k] : k \in DOMAIN AllFiles}
              below(file) == \E k \in DOMAIN file.filepath : file.filepath[k] = "/"
          IN {listing \in UNION {[1..n -> files] : n \in 0..MaxFiles} :
                \A i \in DOMAIN listing : \A j \in DOMAIN listing :
                    i < j => /\ listing[i] # listing[j]
                             /\ below(listing[i]) => below(listing[j])}
    /\ remote_playlists \in Selections(AllRemote, 2)
    /\ ToReset
    /\ FromIdle
    /\ YtIdle

\* main_dispatcher for to-spotify: a connection with a user id is required
DispatchTo ==
    /\ pc = "dispatch" /\ command = "to-spotify"
    /\ \E outcome \in {"ok", "noinfo", "error", "fatal"} :
        IF outcome = "fatal" THEN Return(1) /\ UNCHANGED <<connection, scan_pos>>
        ELSE /\ connection' = spotify_connect(outcome)
             /\ IF ~connection'.client \/ ~connection'.userid
                THEN Return(1) /\ UNCHANGED scan_pos
                ELSE pc' = "to_scan" /\ scan_pos' = 1 /\ UNCHANGED exit_code
    /\ UNCHANGED <<fnVars, command, run, dirVars, fromVars, ytVars, toArgs, n_mp3,
                   tracks_found_on_spotify, scan_log, ensureVars, addVars>>

\* SearchSpotify keeping the id of a match but not its URL
SearchSpotifyIdOnly(track, outcome) ==
    CASE outcome \in {"match", "nourl"} -> [track EXCEPT !.spotify_id = SpotifyIdOf(track)]
      [] outcome = "noid" -> [track EXCEPT !.url = SpotifyUrlOf(track)]
      [] OTHER -> track

\* step 2 for one yielded track: "match" a result with url and id, "nourl" a result
\* with an id and no url, "noid" a result with a url and no id, "none" no result (or
\* a result with neither), "error" the search raises
SearchSpotify(track, outcome) ==
    CASE outcome = "match" ->
           [track EXCEPT !.url = SpotifyUrlOf(track), !.spotify_id = SpotifyIdOf(track)]
      [] outcome = "nourl" -> [track EXCEPT !.spotify_id = SpotifyIdOf(track)]
      [] outcome = "noid" -> [track EXCEPT !.url = SpotifyUrlOf(track)]
      [] OTHER -> track

\* one iteration of the loop over mp3_walk_directory: the walk examines the next
\* file and the track it yields is searched on Spotify
ToProcessFile ==
    /\ pc = "to_scan" /\ dir_ok
    /\ scan_pos <= Len(directory)
    /\ \E load \in {"loaded", "error"}, outcome \in {"match", "nourl", "noid", "none", "error"} :
        LET yielded == WalkFile(directory[scan_pos], load)
        IN IF yielded = <<>>
           THEN /\ scan_log' = Append(scan_log,
                                 [yielded |-> FALSE,
                                  outcome |-> IF load = "error" THEN "unreadable" ELSE "-"])
                /\ UNCHANGED <<n_mp3, tracks_found_on_spotify>>
           ELSE LET track == SearchSpotify(yielded[1], outcome)
                IN /\ n_mp3' = n_mp3 + 1
                   /\ scan_log' = Append(scan_log, [yielded |-> TRUE, outcome |-> outcome])
                   /\ tracks_found_on_spotify' =
                        IF Truthy(track.url) /\ Truthy(track.spotify_id)
                        THEN Append(tracks_found_on_spotify, track)
                        ELSE tracks_found_on_spotify
    /\ scan_pos' = scan_pos + 1
    /\ UNCHANGED <<fnVars, procVars, dirVars, fromVars, ytVars, toArgs, ensureVars, addVars>>

\* step 3, once the walk is over (at once when args.directory is no directory):
\* the playlist is looked up and, when not found, created
ToEnsurePlaylist ==
    /\ pc = "to_scan"
    /\ ~dir_ok \/ scan_pos > Len(directory)
    /\ \E listing \in {"ok", "malformed", "error"}, creation \in {"ok", "noid", "error"} :
        LET found == spotify_check_playlist(remote_playlists, args_playlist, None, listing)
            playlist_id_new == spotify_create_playlist(connection, args_playlist, creation)
        IN /\ list_calls' = Append(list_calls, listing)
           /\ IF found # NoPlaylist
              THEN /\ playlist' = found
                   /\ pc' = "to_add"
                   /\ UNCHANGED <<exit_code, created>>
              ELSE /\ created' = IF connection.userid
                                  THEN Append(created, [name |-> args_playlist,
                                                        public |-> FALSE, outcome |-> creation])
                                  ELSE created
                   /\ IF Truthy(playlist_id_new)
                      THEN /\ playlist' = [id |-> playlist_id_new, name |-> args_playlist]
                           /\ pc' = "to_add"
                           /\ UNCHANGED exit_code
                      ELSE /\ Return(1)
                           /\ UNCHANGED playlist
    /\ UNCHANGED <<fnVars, command, connection, run, dirVars, fromVars, ytVars, toArgs, scanVars,
                   addVars>>

\* step 4 up to the loop: the URLs to add; return 0 when there is none
ToCollectUrls ==
    /\ pc = "to_add"
    /\ LET kept == SelectSeq(tracks_found_on_spotify, has_spotify_url)
           urls == [k \in 1..Len(kept) |-> kept[k].url]
       IN /\ tracks_to_add_urls' = urls
          /\ IF urls = <<>> THEN Return(0) /\ UNCHANGED <<chunk_no, added_count>>
             ELSE /\ pc' = "to_chunks"
                  /\ chunk_no' = 1
                  /\ added_count' = 0
                  /\ UNCHANGED exit_code
    /\ UNCHANGED <<fnVars, command, connection, run, dirVars, fromVars, ytVars, toArgs, scanVars,
                   ensureVars, add_calls>>

\* ToAddChunk leaving the loop at the first chunk that fails
ToAddChunkStopping ==
    /\ pc = "to_chunks"
    /\ LET chunks == list_chunks(tracks_to_add_urls, CHUNK_SIZE)
           chunk_urls == chunks[chunk_no]
       IN /\ chunk_no <= Len(chunks)
          /\ \E outcome \in {"ok", "error"} :
               /\ add_calls' = Append(add_calls, [playlist_id |-> playlist.id,
                                                  urls |-> chunk_urls, outcome |-> outcome])
               /\ added_count' = IF outcome = "ok" THEN added_count + Len(chunk_urls)
                                 ELSE added_count
               /\ IF chunk_no = Len(chunks) \/ outcome = "error" THEN Return(0)
                  ELSE UNCHANGED <<pc, exit_code>>
          /\ chunk_no' = chunk_no + 1
    /\ UNCHANGED <<fnVars, command, connection, run, dirVars, fromVars, ytVars, toArgs, scanVars,
                   ensureVars, tracks_to_add_urls>>

\* one iteration of the add loop: playlist_add_items for the next chunk succeeds
\* ("ok") or raises ("error"); after the last chunk the flow returns 0
ToAddChunk ==
    /\ pc = "to_chunks"
    /\ LET chunks == list_chunks(tracks_to_add_urls, CHUNK_SIZE)
           chunk_urls == chunks[chunk_no]
       IN /\ chunk_no <= Len(chunks)
          /\ \E outcome \in {"ok", "error"} :
               /\ add_calls' = Append(add_calls, [playlist_id |-> playlist.id,
                                                  urls |-> chunk_urls, outcome |-> outcome])
               /\ added_count' = IF outcome = "ok" THEN added_count + Len(chunk_urls)
                                 ELSE added_count
          /\ chunk_no' = chunk_no + 1
          /\ IF chunk_no = Len(chunks) THEN Return(0) ELSE UNCHANGED <<pc, exit_code>>
    /\ UNCHANGED <<fnVars, command, connection, run, dirVars, fromVars, ytVars, toArgs, scanVars,
                   ensureVars, tracks_to_add_urls>>

NextTo ==
    \/ DispatchTo
    \/ ToProcessFile
    \/ ToEnsurePlaylist
    \/ ToCollectUrls
    \/ ToAddChunk

SpecTo == InitTo /\ [][NextTo]_vars

(***************************************************************************)
(* The add phase on its own: run_sync_to_spotify at step 4, after a walk   *)
(* of n tagged files that each found their match and with the playlist    *)
(* found by name.                                                          *)
(***************************************************************************)
FoundTrack(file) == SearchSpotify(WalkFile(file, "loaded")[1], "match")

InitAdd ==
    /\ command = "to-spotify"
    /\ pc = "to_add"
    /\ exit_code = -1
    /\ connection = spotify_connect("ok")
    /\ run = 1
    /\ mkdir_calls = 0
    /\ fs = <<>>
    /\ renames = 0
    /\ cycles = <<>>
    /\ FnIdle
    /\ dir_ok = TRUE
    /\ \E n \in 0..MaxFound :
        /\ directory = BulkDirectory(n)
        /\ scan_pos = n + 1
        /\ n_mp3 = n
        /\ tracks_found_on_spotify = [k \in 1..n |-> FoundTrack(BulkDirectory(n)[k])]
        /\ scan_log = [k \in 1..n |-> [yielded |-> TRUE, outcome |-> "match"]]
    /\ remote_playlists = <<RemoteFirst>>
    /\ playlist = RemoteFirst
    /\ list_calls = <<"ok">>
    /\ created = <<>>
    /\ tracks_to_add_urls = <<>>
    /\ chunk_no = 0
    /\ added_count = 0
    /\ add_calls = <<>>
    /\ FromIdle
    /\ YtIdle

NextAdd ==
    \/ ToCollectUrls
    \/ ToAddChunk

SpecAdd == InitAdd /\ [][NextAdd]_vars

(***************************************************************************)
(* Functions called on their own, on arguments drawn from bounded sets.    *)
(***************************************************************************)
\* all texts of at most n characters over an alphabet
TextsOver(alphabet, n) == UNION {[1..k -> alphabet] : k \in 0..n}

\* the process before a function is called on one argument
InitFn(arguments) ==
    /\ command = "function"
    /\ pc = "call"
    /\ exit_code = -1
    /\ connection = NoConnection
    /\ run = 1
    /\ dir_ok = FALSE
    /\ mkdir_calls = 0
    /\ fs = <<>>
    /\ renames = 0
    /\ cycles = <<>>
    /\ FromIdle
    /\ YtIdle
    /\ ToIdle
    /\ call = "none"
    /\ arg \in arguments
    /\ result = <<>>

\* what a call of a function on its own leaves alone
fnFrame == <<arg, command, exit_code, connection, run, dirVars, fromVars, ytVars, toVars>>

\* the characters of the file stems
StemChars == {"a", "-", "_", " "}

\* _parse_track_from_filename(filepath) on the file arg
CallParseTrack ==
    /\ pc = "call" /\ call = "none"
    /\ call' = "_parse_track_from_filename"
    /\ result' = _parse_track_from_filename(arg)
    /\ pc' = "done"
    /\ UNCHANGED fnFrame

SpecParse ==
    InitFn({parent \o stem \o Ext : parent \in {<<>>, <<"d", "-", "d", "/">>},
                                    stem \in TextsOver(StemChars, MaxStem)})
        /\ [][CallParseTrack]_vars

\* the pieces the titles handed to the cleaning functions are made of
TitlePieces ==
    {<<"S">>, <<" ">>, <<"-">>, <<":">>, <<"|">>, <<"#">>, <<"*">>, <<"/", "/">>,
     <<"(", "S", ")">>, <<"[", "S", "]">>,
     <<"(", "A", "u", "d", "i", "o", ")">>, <<"(", "a", "u", "d", "i", "o", ")">>,
     <<"(", "O", "f", "f", "i", "c", "i", "a", "l">>, <<"V", "i", "d", "e", "o", ")">>}

\* the pieces of a list, one after the other
RECURSIVE Concat(_)
Concat(pieces) == IF pieces = <<>> THEN <<>> ELSE Head(pieces) \o Concat(Tail(pieces))

\* "Artist - Song (Official Music Video)"
TitleExample ==
    <<"A", "r", "t", "i", "s", "t", " ", "-", " ", "S", "o", "n", "g", " ",
      "(", "O", "f", "f", "i", "c", "i", "a", "l", " ", "M", "u", "s", "i", "c", " ",
      "V", "i", "d", "e", "o", ")">>

\* the titles of at most n pieces, and the example
Titles(n) == {Concat(pieces) : pieces \in TextsOver(TitlePieces, n)} \cup {TitleExample}

\* sanitize_filename(name) on the title arg
CallSanitize ==
    /\ pc = "call" /\ call = "none"
    /\ call' = "sanitize_filename"
    /\ result' = sanitize_filename(arg)
    /\ pc' = "done"
    /\ UNCHANGED fnFrame

\* _parse_youtube_title(raw_title) on the title arg
CallParseTitle ==
    /\ pc = "call" /\ call = "none"
    /\ call' = "_parse_youtube_title"
    /\ result' = _parse_youtube_title(arg)
    /\ pc' = "done"
    /\ UNCHANGED fnFrame

NextClean == CallSanitize \/ CallParseTitle

SpecClean == InitFn(Titles(MaxPieces)) /\ [][NextClean]_vars

\* the values of a field of a TrackInfo: None, or a text of at most n characters
FieldValues(n) == {None} \cup TextsOver({"a", " "}, n)

\* the tracks whose query is asked for
QueryTracks(n) == {TrackInfo(artist, None, title, None) : artist, title \in FieldValues(n)}

\* track.search_query_spotify on the track arg
CallQuery ==
    /\ pc = "call" /\ call = "none"
    /\ call' = "search_query_spotify"
    /\ result' = search_query_spotify(arg)
    /\ pc' = "done"
    /\ UNCHANGED fnFrame

SpecQuery == InitFn(QueryTracks(MaxField)) /\ [][CallQuery]_vars

\* the process before add_metadata is called: a fetched track and the path of its
\* file, which is missing or as the downloader left it
InitMeta ==
    /\ command = "function"
    /\ pc = "call"
    /\ exit_code = -1
    /\ connection = NoConnection
    /\ run = 1
    /\ dir_ok = TRUE
    /\ mkdir_calls = 0
    /\ renames = 0
    /\ cycles = <<>>
    /\ FromIdle
    /\ YtIdle
    /\ ToIdle
    /\ call = "none"
    /\ result = <<>>
    /\ \E k \in DOMAIN AllItems :
        LET item == AllItems[k]
            track == TrackInfo(item.artist, item.album, item.name, item.id)
        IN /\ arg = [mp3_path |-> Mp3Path(track), track |-> track]
           /\ fs \in {<<>>, WriteFile(<<>>, Mp3Path(track),
                                      YdlFile(YoutubeUrlOf(track), None, None))}

\* add_metadata(mp3_path, track) on the arguments arg
CallAddMetadata ==
    /\ pc = "call" /\ call = "none"
    /\ call' = "add_metadata"
    /\ \E outcome \in {"ok", "error"} :
        fs' = add_metadata(fs, arg.mp3_path, arg.track, outcome)
    /\ result' = None
    /\ pc' = "done"
    /\ UNCHANGED <<arg, command, exit_code, connection, run, dir_ok, mkdir_calls, renames,
                   cycles, fromVars, ytVars, toVars>>

SpecMeta == InitMeta /\ [][CallAddMetadata]_vars

(***************************************************************************)
(* The program: one of the three commands is dispatched.                   *)
(***************************************************************************)
Init == InitFrom \/ InitYt \/ InitTo

\* one run of the program
Run == RunFrom \/ RunYt \/ NextTo

Next == NextFrom \/ NextYt \/ NextTo

SpecRun == Init /\ [][Run]_vars

Spec == Init /\ [][Next]_vars

(***************************************************************************)
(* The claims.                                                             *)
(***************************************************************************)
\* the canonical file name rename_hook gives entry k of the playlist
CanonicalOf(k) ==
    NewFilename(IF yt_playlist[k].has_index THEN <<k>> ELSE <<>>,
                ArtistGuess(yt_playlist[k]), _parse_youtube_title(yt_playlist[k].title))

\* C1: materializer idempotence.  Once a run has downloaded, renamed and tagged an
\* entry, a later run against the same output directory downloads nothing for it
\* (the existence check short-circuits and the run reports success), the entry has
\* been renamed exactly once in total, and exactly one file is left for it.
C1_SecondRunDownloadsNothing ==
    \A k \in yt_prev_ok :
        /\ k \in DOMAIN yt_fetches => yt_fetches[k] = 0
        /\ Count(cycles, CanonicalOf(k)) = 1
        /\ (pc = "done" /\ yt_stage # "raised") =>
              /\ exit_code = 0
              /\ CanonicalOf(k) \in DOMAIN fs
              /\ TempPath(yt_playlist[k]) \notin DOMAIN fs

\* C2: across hook firings, repeated firings for one download and restarts on the
\* same output directory, the rename-then-retag sequence of the hook runs at most
\* once per canonical file name.
C2_RenameRetagAtMostOnce == \A p \in DOMAIN cycles : cycles[p] <= 1

Range(f) == {f[k] : k \in DOMAIN f}

\* the search phase of from-spotify is over; its download phase is over
SearchOver == search # <<>> /\ \A i \in DOMAIN search : search[i] = "collected"
DownloadOver == command = "from-spotify" /\ pc = "done" /\ dl # <<>>

\* C3: in from-spotify, whatever the order in which the workers complete, the
\* YouTube search is invoked exactly once per fetched track and the download exactly
\* once per track that obtained a URL, so downloaded + failed = resolved <= fetched;
\* two fetched tracks that both resolve and both download give 2/2/2/0 and exit 0.
C3_OncePerTrack ==
    /\ \A i \in DOMAIN search_calls : Len(search_calls[i]) <= 1
    /\ \A i \in DOMAIN download_calls : download_calls[i] <= 1
    /\ SearchOver => \A i \in 1..Len(spotify_tracks) : Len(search_calls[i]) = 1
    /\ DownloadOver =>
          /\ \A i \in 1..Len(spotify_tracks) :
                download_calls[i] = IF has_youtube_url(spotify_tracks[i]) THEN 1 ELSE 0
          /\ Len(tracks_with_youtube_url) =
                Cardinality({i \in 1..Len(spotify_tracks) : has_youtube_url(spotify_tracks[i])})
          /\ successful_downloads + failed_downloads = Len(tracks_with_youtube_url)
          /\ Len(tracks_with_youtube_url) <= Len(spotify_tracks)
          /\ (/\ Len(spotify_tracks) = 2
              /\ Len(tracks_with_youtube_url) = 2
              /\ \A i \in 1..2 : dl_result[i])
             => successful_downloads = 2 /\ failed_downloads = 0 /\ exit_code = 0

\* two tracks fetched, resolved in the reverse order, both downloaded
C3_Witness ==
    /\ DownloadOver
    /\ Len(spotify_tracks) = 2
    /\ tracks_with_youtube_url = <<2, 1>>
    /\ successful_downloads = 2 /\ failed_downloads = 0
    /\ exit_code = 0

\* the URLs of the matched tracks, in the order they were found
FoundUrls == [k \in 1..Len(tracks_found_on_spotify) |-> tracks_found_on_spotify[k].url]

\* the URL lists of the add calls, one after the other
RECURSIVE Flatten(_)
Flatten(calls) == IF calls = <<>> THEN <<>> ELSE Head(calls).urls \o Flatten(Tail(calls))

\* ceil(n / 100)
Ceil100(n) == (n + 99) \div 100

\* C4: adding N matched URLs issues exactly ceil(N/100) add calls in order, each
\* but the last with exactly 100 URLs, the last with the remainder; the calls' URL
\* lists concatenated are the original list; 250 URLs give sizes 100, 100, 50.
C4_ChunkedAdds ==
    LET N == Len(FoundUrls)
        sent == Flatten(add_calls)
    IN /\ Len(add_calls) <= Ceil100(N)
       /\ \A k \in 1..Len(add_calls) :
             Len(add_calls[k].urls) = IF k < Ceil100(N) THEN 100 ELSE N - 100 * (k - 1)
       /\ sent = SubSeq(FoundUrls, 1, Len(sent))
       /\ pc = "done" => Len(add_calls) = Ceil100(N) /\ sent = FoundUrls
       /\ (pc = "done" /\ N = 250) =>
             [k \in 1..Len(add_calls) |-> Len(add_calls[k].urls)] = <<100, 100, 50>>

\* 250 URLs were added in three calls
C4_Witness ==
    /\ pc = "done"
    /\ Len(FoundUrls) = 250
    /\ Len(add_calls) = 3
    /\ Len(add_calls[3].urls) = 50

\* the listing answered and its page names the requested playlist
Listed == list_calls # <<>> /\ list_calls[1] = "ok"
NamedAt == {k \in DOMAIN remote_playlists : remote_playlists[k].name = args_playlist}

\* C5: to-spotify ensures the target playlist: when the first page of the owner's
\* playlists, as the listing returns it, holds a playlist whose name equals the
\* requested name exactly, that playlist's id is used and none is created; when
\* none matches, exactly one private playlist with the requested name is created
\* for the user, and its id is the one the add calls use.
C5_EnsurePlaylist ==
    /\ Len(list_calls) <= 1
    /\ (Listed /\ NamedAt # {}) =>
          /\ created = <<>>
          /\ playlist = remote_playlists[Min(NamedAt)]
          /\ \A k \in DOMAIN add_calls :
                add_calls[k].playlist_id = remote_playlists[Min(NamedAt)].id
    /\ (Listed /\ NamedAt = {}) =>
          /\ Len(created) = 1
          /\ created[1].name = args_playlist
          /\ ~created[1].public
          /\ created[1].outcome = "ok" =>
                /\ playlist = [id |-> NewPlaylistId, name |-> args_playlist]
                /\ \A k \in DOMAIN add_calls : add_calls[k].playlist_id = NewPlaylistId
          /\ created[1].outcome # "ok" => add_calls = <<>>

\* only a playlist named "p" is listed for the request "P": one is created and used
C5_Witness ==
    /\ Listed
    /\ remote_playlists = <<RemoteLower>>
    /\ Len(created) = 1
    /\ add_calls # <<>>
    /\ add_calls[1].playlist_id = NewPlaylistId

\* the sizes of the add calls that succeeded, summed
RECURSIVE SumAdded(_)
SumAdded(calls) ==
    IF calls = <<>> THEN 0
    ELSE (IF Head(calls).outcome = "ok" THEN Len(Head(calls).urls) ELSE 0) + SumAdded(Tail(calls))

\* C6: when the add call of one batch fails, every later batch is still attempted
\* in order, the added count is the sum of the sizes of the batches whose call
\* succeeded, and the flow finishes.
C6_FailedBatchDoesNotStop ==
    LET N == Len(tracks_to_add_urls)
    IN /\ added_count = SumAdded(add_calls)
       /\ \A k \in DOMAIN add_calls :
             add_calls[k].urls =
                SubSeq(tracks_to_add_urls, 100 * (k - 1) + 1, Min({100 * k, N}))
       /\ \A k \in DOMAIN add_calls :
             (add_calls[k].outcome = "error" /\ k < Ceil100(N)) =>
                \/ pc = "to_chunks" /\ chunk_no = Len(add_calls) + 1
                \/ Len(add_calls) = Ceil100(N)
       /\ (pc = "done" /\ add_calls # <<>>) =>
             Len(add_calls) = Ceil100(N) /\ exit_code = 0

\* the first of three batches failed, the two after it were added
C6_Witness ==
    /\ pc = "done" /\ exit_code = 0
    /\ Len(add_calls) = 3
    /\ add_calls[1].outcome = "error"
    /\ add_calls[2].outcome = "ok" /\ add_calls[3].outcome = "ok"
    /\ added_count = 150

\* C7: a catalog search (Spotify or YouTube) that finds nothing or raises for one
\* track leaves the track without an external identity, raises nothing, keeps the
\* track out of the resolved set, and every remaining track is still searched.
C7_FailedSearchStaysLocal ==
    /\ \A i \in DOMAIN search_calls :
          (search_calls[i] # <<>> /\ search_calls[i][1] \in {"none", "error"}) =>
             /\ search[i] \in {"missing", "collected"}
             /\ ~has_youtube_url(spotify_tracks[i])
             /\ i \notin Range(tracks_with_youtube_url)
    /\ SearchOver => \A i \in 1..Len(spotify_tracks) : Len(search_calls[i]) = 1
    /\ \A k \in DOMAIN scan_log :
          scan_log[k].outcome \in {"none", "error"} =>
             LET track == SearchSpotify(WalkFile(directory[k], "loaded")[1], scan_log[k].outcome)
             IN /\ ~Truthy(track.url) /\ ~Truthy(track.spotify_id)
                /\ \A j \in DOMAIN tracks_found_on_spotify :
                      tracks_found_on_spotify[j].filename # track.filename
    /\ (command = "to-spotify" /\ scan_pos > 0 /\ pc # "to_scan" /\ dir_ok) =>
          /\ Len(scan_log) = Len(directory)
          /\ \A k \in DOMAIN scan_log : scan_log[k].yielded => scan_log[k].outcome # "-"

\* one YouTube search raised, the other track was resolved and goes to download
C7_Witness ==
    /\ pc = "download"
    /\ Len(spotify_tracks) = 2
    /\ search_calls[1] = <<"error">>
    /\ search_calls[2] = <<"found">>
    /\ tracks_with_youtube_url = <<2>>

\* C8: in the download phase of from-spotify a failure of any step for one track
\* (downloader error, non-zero code, missing output file, exception) gives a failed
\* result for that track only: every other submitted track is still downloaded and
\* counted, and no worker's failure cancels another.
C8_DownloadFailureStaysLocal ==
    /\ \A i \in DOMAIN dl :
          dl[i] \in {"done", "collected"} =>
             /\ (ydl_calls[i] # <<>> /\ ydl_calls[i][1] \in {"code", "partial", "raise"})
                   => ~dl_result[i]
             /\ Mp3Path(spotify_tracks[i]) \notin DOMAIN fs => ~dl_result[i]
             /\ ydl_calls[i] = <<"ok">> => dl_result[i]
    /\ DownloadOver =>
          /\ \A i \in DOMAIN dl :
                has_youtube_url(spotify_tracks[i]) => dl[i] = "collected" /\ download_calls[i] = 1
          /\ failed_downloads = Cardinality({i \in DOMAIN dl : dl[i] = "collected" /\ ~dl_result[i]})
          /\ successful_downloads = Cardinality({i \in DOMAIN dl : dl[i] = "collected" /\ dl_result[i]})

\* one download raised, the other track was downloaded and counted
C8_Witness ==
    /\ DownloadOver
    /\ Len(tracks_with_youtube_url) = 2
    /\ ydl_calls[1] = <<"raise">>
    /\ ydl_calls[2] = <<"ok">> /\ dl_result[2]
    /\ successful_downloads = 1 /\ failed_downloads = 1

\* the preconditions of the command hold: the connection it needs, its required
\* argument, its directory
Preconditions ==
    CASE command = "from-spotify" -> connection.authed /\ Truthy(playlist_id) /\ dir_ok
      [] command = "from-youtube" -> Truthy(playlist_url) /\ dir_ok
      [] command = "to-spotify" -> connection.authed /\ connection.userid /\ dir_ok

\* C9: every flow that passes its preconditions and runs to completion
\* returns 0, also when it found nothing to do (no local track matched, the
\* playlist has no tracks, no track resolved to a URL); 1 is returned only for a
\* fatal precondition failure or a dispatch error.
C9_ExitOneOnlyWhenFatal ==
    (pc = "done" /\ Preconditions /\ yt_stage # "raised") => exit_code = 0

\* from-youtube went through every entry of the playlist and the downloader returned
YtCompleted ==
    /\ command = "from-youtube" /\ pc = "done"
    /\ yt_stage = "new" /\ yt_pos > Len(yt_playlist)

\* C10: in each of the three flows a partial failure of per-item work
\* (add batches, downloads, playlist entries of the downloader) still yields exit
\* code 0 once the flow has completed.
C10_PartialFailureExitsZero ==
    /\ (command = "to-spotify" /\ pc = "done" /\ add_calls # <<>>) => exit_code = 0
    /\ DownloadOver => exit_code = 0
    /\ YtCompleted => exit_code = 0

\* the setup of from-spotify, of from-youtube, fails: the required argument is
\* missing or the output directory cannot be created
FromSetupFails == command = "from-spotify" /\ (~Truthy(playlist_id) \/ ~dir_ok)
YtSetupFails == command = "from-youtube" /\ (~Truthy(playlist_url) \/ ~dir_ok)

\* C11: in from-spotify and from-youtube, when the playlist id / url is missing or
\* the output directory cannot be created, the flow returns 1 before any worker is
\* scheduled and before any playlist fetch, YouTube search or download call.
C11_SetupFailureBeforeWork ==
    /\ FromSetupFails =>
          /\ pc \in {"dispatch", "from_start", "done"}
          /\ pc = "done" => exit_code = 1
          /\ page_requests = <<>>
          /\ search = <<>> /\ search_calls = <<>>
          /\ dl = <<>> /\ download_calls = <<>> /\ ydl_calls = <<>>
    /\ YtSetupFails =>
          /\ pc \in {"dispatch", "yt_start", "done"}
          /\ pc = "done" => exit_code = 1
          /\ yt_pos = 0 /\ yt_stage = "idle"
          /\ yt_fetches = <<>> /\ hooks_fired = 0

\* from-spotify with a playlist id tried to create the directory, could not, returned 1
C11_Witness ==
    /\ command = "from-spotify" /\ pc = "done"
    /\ connection.client
    /\ Truthy(playlist_id) /\ ~dir_ok
    /\ mkdir_calls = 1
    /\ exit_code = 1


\* spotify_connect could not establish the connection: it raised, and handed back
\* the unauthenticated client of its except branch or exited
ConnectFailed ==
    /\ command \in {"to-spotify", "from-spotify"}
    /\ pc # "dispatch"
    /\ ~connection.authed

\* C12: when the connection to Spotify cannot be established, dispatching to-spotify
\* or from-spotify returns exit code 1 with no work done first: no directory scan,
\* no creation of the output directory, no catalog search, no playlist fetch.
C12_NoConnectionNoWork ==
    ConnectFailed =>
        /\ pc = "done" => exit_code = 1
        /\ scan_pos = 0 /\ scan_log = <<>>
        /\ mkdir_calls = 0
        /\ search_calls = <<>>
        /\ page_requests = <<>>


\* the files examined so far that carry no tag, whose name parses to a title, and
\* whose Spotify search returned a match
UntaggedMatched ==
    {k \in DOMAIN scan_log :
        /\ ~directory[k].tag
        /\ Truthy(_parse_track_from_filename(directory[k].filepath).title)
        /\ scan_log[k].outcome = "match"}

\* the URL of the match found for the title parsed from file k's name
UrlOfFile(k) == SpotifyUrlOf(_parse_track_from_filename(directory[k].filepath))

Occurrences(seq, x) == Cardinality({j \in DOMAIN seq : seq[j] = x})

\* C13: in to-spotify every local file without tags, whose name parses to a title
\* and whose search returns a match, contributes exactly one URL, the match's, to
\* the add calls; three such files give an add call of exactly 3 URLs.
C13_UntaggedFilesAdded ==
    /\ \A k \in UntaggedMatched : Occurrences(FoundUrls, UrlOfFile(k)) = 1
    /\ (pc = "done" /\ exit_code = 0) =>
          /\ \A k \in UntaggedMatched :
                Occurrences(Flatten(add_calls), UrlOfFile(k)) = 1
          /\ (Len(directory) = 3 /\ UntaggedMatched = 1..3) =>
                /\ Len(add_calls) = 1
                /\ Len(add_calls[1].urls) = 3
                /\ add_calls[1].urls = [k \in 1..3 |-> UrlOfFile(k)]

\* three untagged files, each matched, were added in one call
C13_Witness ==
    /\ pc = "done" /\ exit_code = 0
    /\ Len(directory) = 3
    /\ UntaggedMatched = 1..3
    /\ Len(add_calls) = 1
    /\ Len(add_calls[1].urls) = 3


\* C14: from-spotify never modifies Spotify state: on every path of the command no
\* playlist is created and no items are added to any playlist.
C14_FromSpotifyReadsOnly ==
    command = "from-spotify" => created = <<>> /\ add_calls = <<>>

\* from-spotify ran to its end with a download, and made neither call
C14_Witness ==
    /\ DownloadOver
    /\ successful_downloads >= 1
    /\ exit_code = 0
    /\ created = <<>> /\ add_calls = <<>>


\* the name of the file arg within its directory, its stem (the file ".mp3" has no
\* extension: it is its own stem),
\* the stem with its underscores read as spaces, the places of its hyphens, and its
\* hyphen-delimited segments, each trimmed
ArgName ==
    LET slashes == {k \in 1..Len(arg) : arg[k] = "/"}
    IN IF slashes = {} THEN arg ELSE SubSeq(arg, Max(slashes) + 1, Len(arg))
ArgStem == IF ArgName = Ext THEN ArgName ELSE SubSeq(ArgName, 1, Len(ArgName) - Len(Ext))
Normalized == [k \in 1..Len(ArgStem) |-> IF ArgStem[k] = "_" THEN " " ELSE ArgStem[k]]
HyphenAt == {k \in 1..Len(ArgStem) : ArgStem[k] = "-"}
NumSegments == Cardinality(HyphenAt) + 1
Trimmed(s) ==
    LET keep == {k \in DOMAIN s : s[k] # " "}
    IN IF keep = {} THEN <<>> ELSE SubSeq(s, Min(keep), Max(keep))
Segment(k) ==
    LET cuts == <<0>> \o Ascending(HyphenAt) \o <<Len(ArgStem) + 1>>
    IN Trimmed(SubSeq(Normalized, cuts[k] + 1, cuts[k + 1] - 1))

ParseReturned == call = "_parse_track_from_filename"

\* C15: for every stem (underscores replaced by spaces, split on the hyphen, each
\* segment trimmed): with exactly 4 segments the parser discards segment 1 and gives
\* segments 2, 3, 4 to artist, album, title; with exactly 3 it gives them to artist,
\* album, title; with exactly 2 it gives them to album, title and leaves artist unset.
C15_SegmentsToFields ==
    ParseReturned =>
        /\ NumSegments = 4 =>
              /\ result.artist = Segment(2)
              /\ result.album = Segment(3)
              /\ result.title = Segment(4)
        /\ NumSegments = 3 =>
              /\ result.artist = Segment(1)
              /\ result.album = Segment(2)
              /\ result.title = Segment(3)
        /\ NumSegments = 2 =>
              /\ result.artist = None
              /\ result.album = Segment(1)
              /\ result.title = Segment(2)

\* a stem of four non-empty segments was parsed
C15_Witness ==
    /\ ParseReturned
    /\ NumSegments = 4
    /\ \A k \in 1..4 : Segment(k) # <<>>
    /\ result.artist = Segment(2) /\ result.title = Segment(4)

\* C16: for every stem with 1 or more than 4 hyphen-delimited segments the parser
\* sets title to the whole stem with underscores replaced by spaces ("random_file"
\* gives "random file") and leaves artist and album unset.
C16_WholeStemAsTitle ==
    (ParseReturned /\ NumSegments \notin {2, 3, 4}) =>
        /\ result.title = Normalized
        /\ result.artist = None
        /\ result.album = None

\* a one-segment stem with an underscore became a title with a space
C16_Witness ==
    /\ ParseReturned
    /\ arg = <<"a", "_", "a">> \o Ext
    /\ result.title = <<"a", " ", "a">>
    /\ result.artist = None /\ result.album = None


\* C17: the filename sanitizer is idempotent: sanitize(sanitize(x)) = sanitize(x)
\* for every input x.
C17_SanitizeIdempotent ==
    call = "sanitize_filename" => sanitize_filename(result) = result


\* the title has no "(" inside a parenthesis and no ")" or "]" without its opening
RECURSIVE WellFormedFrom(_, _, _)
WellFormedFrom(s, i, open) ==
    IF i > Len(s) THEN open = ""
    ELSE IF s[i] \in {"(", "["} THEN open = "" /\ WellFormedFrom(s, i + 1, s[i])
    ELSE IF s[i] = ")" THEN open = "(" /\ WellFormedFrom(s, i + 1, "")
    ELSE IF s[i] = "]" THEN open = "[" /\ WellFormedFrom(s, i + 1, "")
    ELSE WellFormedFrom(s, i + 1, open)

\* a title the other cleaning rules leave alone: well formed, without "|", "/", "#"
\* and without a character that is invalid in a file name
PlainTitle(s) ==
    /\ WellFormedFrom(s, 1, "")
    /\ \A k \in DOMAIN s : s[k] \notin InvalidChars \cup {"#"}

\* the place where the group opened at i closes
CloseOf(s, i) == Min({j \in (i + 1)..Len(s) : s[j] \in {")", "]"}})

\* the group opened at i is noise: a bracketed annotation, or a parenthesized
\* qualifier that contains one of the four phrases, whatever the case of its letters
NoiseGroup(s, i) ==
    \/ s[i] = "["
    \/ /\ s[i] = "("
       /\ \E kw \in {KwOfficialVideo, KwMusicVideo, KwLyricVideo, KwAudio} :
             \E m \in (i + 1)..(CloseOf(s, i) - Len(kw)) : MatchesAt(s, m, kw)

\* the places of a title that lie inside a noise group
InNoise(s) ==
    UNION {i..CloseOf(s, i) : i \in {k \in DOMAIN s : s[k] \in {"(", "["} /\ NoiseGroup(s, k)}}

\* the text outside the noise groups; a text without its whitespace
Outside(s) == LET inside == InNoise(s)
              IN [k \in 1..Len(s) |-> IF k \in inside THEN " " ELSE s[k]]
NoSpace(s) == SelectSeq(s, LAMBDA c : ~IsSpace(c))

\* C18: noise stripping removes, whatever the case, each parenthesized qualifier
\* that contains "Official Video", "Music Video", "Lyric Video" or "Audio" and each
\* bracketed annotation, and leaves the text outside the removed groups unchanged
\* apart from whitespace; "Artist - Song (Official Music Video)" gives
\* "Artist - Song".
C18_NoiseGroupsRemoved ==
    (call = "sanitize_filename" /\ PlainTitle(arg)) =>
        /\ NoSpace(result) = NoSpace(Outside(arg))
        /\ arg = TitleExample =>
              result = <<"A", "r", "t", "i", "s", "t", " ", "-", " ", "S", "o", "n", "g">>


\* the places where a marker "|", "//", "#" or "*" starts
MarkerAt(s) ==
    {k \in DOMAIN s : \/ s[k] \in {"|", "#", "*"}
                      \/ MatchesAt(s, k, <<"/", "/">>)}

\* the part of a title before its first marker
BeforeMarker(s) == SubSeq(s, 1, Min(MarkerAt(s)) - 1)

\* C19: noise stripping removes every suffix of the title that starts at the first
\* "|", "//", "#" or "*": no character at or after the first marker is in the
\* cleaned title, so every character of the cleaned title is one of the part before.
C19_SuffixAtMarkerRemoved ==
    (call \in {"sanitize_filename", "_parse_youtube_title"} /\ MarkerAt(arg) # {}) =>
        Range(result) \subseteq Range(BeforeMarker(arg))


\* "artist:<artist> track:<title>"
ScopedQuery(artist, title) ==
    <<"a", "r", "t", "i", "s", "t", ":">> \o artist \o <<" ", "t", "r", "a", "c", "k", ":">> \o title

QueryReturned == call = "search_query_spotify"

\* C20 as stated: the Spotify search query of a track is "artist:<artist>
\* track:<title>" when the artist is present, the title alone when the artist is
\* absent, and the empty string when the track has no data.
C20_QueryByArtist ==
    QueryReturned =>
        /\ Truthy(arg.artist) => result = ScopedQuery(arg.artist, arg.title)
        /\ (~Truthy(arg.artist) /\ Truthy(arg.title)) => result = arg.title
        /\ (~Truthy(arg.artist) /\ ~Truthy(arg.title)) => result = <<>>

\* C20: the Spotify search query of a track is "artist:<artist> track:<title>" when
\* the artist and the title are both present, the title alone when the artist is
\* absent, and the empty string when the track has no title.
C20_QueryByArtistAndTitle ==
    QueryReturned =>
        /\ (Truthy(arg.artist) /\ Truthy(arg.title)) =>
              result = ScopedQuery(arg.artist, arg.title)
        /\ (~Truthy(arg.artist) /\ Truthy(arg.title)) => result = arg.title
        /\ ~Truthy(arg.title) => result = <<>>

\* a track with an artist and no title was asked for its query: the empty string
C20_Witness ==
    /\ QueryReturned
    /\ arg.artist = <<"a">> /\ arg.title = None
    /\ result = <<>>


\* C21: in from-spotify resolution and download are two phases, one after the
\* other: under every interleaving of the workers no download of any track is
\* submitted or started before the YouTube search of every fetched track is over.
C21_SearchBeforeDownload ==
    (dl # <<>> \/ download_calls # <<>> \/ ydl_calls # <<>>) =>
        /\ SearchOver
        /\ \A i \in 1..Len(spotify_tracks) : Len(search_calls[i]) = 1

\* the searches of two tracks are over and a download is running
C21_Witness ==
    /\ pc = "download"
    /\ Len(spotify_tracks) = 2
    /\ SearchOver
    /\ \E i \in DOMAIN dl : dl[i] = "fetch"


\* C22: before renaming, the hook re-checks the canonical target: when the target
\* already exists and differs from the current path, the firing is a duplicate and
\* neither renames nor writes tags, so the hook never stands at its rename step with
\* such a target, and a file that an earlier run renamed and tagged keeps its tags.
C22_TargetRecheckedBeforeRename ==
    /\ ~(/\ hook.at = "rename"
         /\ hook.new_filepath \in DOMAIN fs
         /\ hook.new_filepath # hook.final_filepath)
    /\ \A k \in yt_prev_ok :
          /\ CanonicalOf(k) \in DOMAIN fs
          /\ fs[CanonicalOf(k)].title = _parse_youtube_title(yt_playlist[k].title)



\* two different tracks of the run whose artist and title sanitize to one target path
SamePath(i, j) ==
    /\ i # j
    /\ Truthy(spotify_tracks[i].artist) /\ Truthy(spotify_tracks[i].title)
    /\ Truthy(spotify_tracks[j].artist) /\ Truthy(spotify_tracks[j].title)
    /\ Mp3Path(spotify_tracks[i]) = Mp3Path(spotify_tracks[j])

\* the downloader wrote the file of track i in this run
Wrote(i) == \E k \in 1..Len(ydl_calls[i]) : ydl_calls[i][k] \in {"ok", "partial"}

\* C23: the existence gate does not serialise concurrent writers: two tracks with the
\* same target path stand past the existence check together, or the downloader writes
\* that path for both in one run, and this takes a pool of two or more workers (with a
\* single worker the second track is checked after the first has written the file)
C23_GateRacesWithWorkers ==
    \A i \in DOMAIN dl : \A j \in DOMAIN dl :
        (SamePath(i, j) /\ ((dl[i] = "fetch" /\ dl[j] = "fetch") \/ (Wrote(i) /\ Wrote(j))))
            => max_workers_to_use # 1

\* both tracks passed the check before either file existed and the downloader ran
\* to success for the same path twice
C23_Witness ==
    \E i \in DOMAIN dl : \E j \in DOMAIN dl :
        /\ SamePath(i, j)
        /\ ydl_calls[i] = <<"ok">> /\ ydl_calls[j] = <<"ok">>
        /\ download_calls[i] = 1 /\ download_calls[j] = 1



\* a field of a track instance changes only by one assignment from unset to set
SetOnce(old, new) == old # new => (~Truthy(old) /\ Truthy(new))

\* C24: within a run, for every track instance the Spotify id, the Spotify url and the
\* YouTube url change only from unset to set: each is assigned at most once and, once
\* assigned, is never overwritten or cleared; the instances themselves stay in place
C24_IdentityAssignedOnce ==
    [][run' = run =>
        /\ \A i \in DOMAIN spotify_tracks :
              /\ i \in DOMAIN spotify_tracks'
              /\ SetOnce(spotify_tracks[i].spotify_id, spotify_tracks'[i].spotify_id)
              /\ SetOnce(spotify_tracks[i].url, spotify_tracks'[i].url)
              /\ SetOnce(spotify_tracks[i].youtube_url, spotify_tracks'[i].youtube_url)
        /\ \A k \in DOMAIN tracks_found_on_spotify :
              /\ k \in DOMAIN tracks_found_on_spotify'
              /\ tracks_found_on_spotify'[k].spotify_id = tracks_found_on_spotify[k].spotify_id
              /\ tracks_found_on_spotify'[k].url = tracks_found_on_spotify[k].url]_vars

\* a track that carries its Spotify id from the fetch and its YouTube url from the
\* search, after its download has been handed out and has finished
C24_Witness ==
    /\ pc = "download"
    /\ \E i \in DOMAIN spotify_tracks :
          /\ Truthy(spotify_tracks[i].spotify_id)
          /\ spotify_tracks[i].youtube_url = YoutubeUrlOf(spotify_tracks[i])
          /\ search_calls[i] = <<"found">>
          /\ dl[i] = "done"



\* every page request of the run so far was answered with a page
AllPages == \A k \in 1..Len(page_requests) : page_requests[k].outcome = "page"

\* the items of the remote playlist that have both an artist and a title
HasBoth(item) == Truthy(item.artist) /\ Truthy(item.name)
WithArtistAndTitle == SelectSeq(sp_playlist, HasBoth)

\* C25: when no page request fails, the pages are requested at strictly increasing
\* offsets, each the number of items received so far; the fetch stops at the first
\* empty page; it returns, in playlist order and each once, exactly the items that
\* have both an artist and a title
C25_PaginationComplete ==
    (command = "from-spotify" /\ AllPages) =>
        /\ page_requests # <<>> => page_requests[1].offset = 0
        /\ \A k \in 1..(Len(page_requests) - 1) :
              /\ PlaylistItems(page_requests[k].offset) # <<>>
              /\ page_requests[k + 1].offset =
                    page_requests[k].offset + Len(PlaylistItems(page_requests[k].offset))
              /\ page_requests[k].offset < page_requests[k + 1].offset
        /\ (page_requests # <<>> /\ pc # "fetch") =>
              /\ PlaylistItems(page_requests[Len(page_requests)].offset) = <<>>
              /\ page_requests[Len(page_requests)].offset = Len(sp_playlist)
              /\ Len(spotify_tracks) = Len(WithArtistAndTitle)
              /\ \A i \in 1..Len(spotify_tracks) :
                    /\ spotify_tracks[i].spotify_id = WithArtistAndTitle[i].id
                    /\ spotify_tracks[i].artist = WithArtistAndTitle[i].artist
                    /\ spotify_tracks[i].title = WithArtistAndTitle[i].name
                    /\ spotify_tracks[i].album = WithArtistAndTitle[i].album

\* a playlist of two items, one without an artist, fetched in three requests
C25_Witness ==
    /\ pc = "search" /\ AllPages
    /\ Len(sp_playlist) = 2 /\ Len(WithArtistAndTitle) = 1
    /\ Len(page_requests) = 3
    /\ Len(spotify_tracks) = 1



\* C26: tag correction overwrites title and artist, sets the comment field to the
\* original source URL and saves: every file that the hook renamed and tagged in this
\* run carries the cleaned title, the guessed artist and its source in the comment
C26_TagsCarrySource ==
    \A k \in yt_ok :
        CanonicalOf(k) \in DOMAIN fs =>
            /\ fs[CanonicalOf(k)].title = _parse_youtube_title(yt_playlist[k].title)
            /\ fs[CanonicalOf(k)].artist = ArtistGuess(yt_playlist[k])
            /\ fs[CanonicalOf(k)].comment = fs[CanonicalOf(k)].src



\* C27: the target base name is the sanitized "<index> - <artist> - <title>" when an
\* ordering index is known and the sanitized "<artist> - <title>", without index
\* prefix, when none is known: the name the hook has computed for the entry it is at
C27_IndexPrefixOnlyWhenKnown ==
    hook.at \in {"rename", "tags"} =>
        LET video == yt_playlist[yt_pos]
        IN hook.new_filepath =
              IF video.has_index
              THEN sanitize_filename(IndexText(<<yt_pos>>) \o <<" ", "-", " ">>
                                     \o hook.artist_guess \o <<" ", "-", " ">>
                                     \o hook.cleaned_title) \o Ext
              ELSE FilenameBase(hook.artist_guess, hook.cleaned_title) \o Ext



\* C28: the walk takes the metadata from the tags and falls back to the file name
\* when the tags do not supply it: every file it could read whose tags give a title
\* or whose stem parses to a non-empty title is yielded
C28_FilenameFallback ==
    \A k \in DOMAIN scan_log :
        LET file == directory[k]
        IN (/\ scan_log[k].outcome # "unreadable"
            /\ \/ file.tag /\ Truthy(file.title)
               \/ Truthy(_parse_track_from_filename(file.filepath).title))
              => scan_log[k].yielded



\* C29: to-spotify creates a playlist only when the listing completed successfully
\* and contained no playlist with the requested name; a listing that raises or
\* answers with a malformed response never leads to a creation
C29_CreateOnlyAfterGoodListing ==
    \A k \in DOMAIN created :
        created[k].outcome = "ok" =>
            /\ list_calls # <<>>
            /\ list_calls[Len(list_calls)] = "ok"
            /\ \A j \in DOMAIN remote_playlists : remote_playlists[j].name # args_playlist



\* C30: a page request that raises is never taken for the end of the playlist: when
\* from-spotify went on to the search phase and exited 0, and every answer it got
\* was a page, the tracks it fetched are all the playlist items that have both an
\* artist and a title
C30_FetchErrorIsNotTheEnd ==
    (/\ command = "from-spotify" /\ pc = "done" /\ exit_code = 0
     /\ search # <<>>
     /\ \A k \in 1..Len(page_requests) : page_requests[k].outcome # "empty") =>
        /\ Len(spotify_tracks) = Len(WithArtistAndTitle)
        /\ \A i \in 1..Len(spotify_tracks) :
              spotify_tracks[i].spotify_id = WithArtistAndTitle[i].id

=============================================================================
